---- MODULE Spec2Model ----
(***************************************************************************)
(* A model of the framebuffer-update decoding pipeline of avacadovnc: the  *)
(* client connection's incoming message loop, the FramebufferUpdate        *)
(* dispatcher, the rectangle decoders with their zlib streams, and the     *)
(* canvas with its cursor layer.                                           *)
(*                                                                         *)
(* Bytes are integers 0..255, a pixel of the canvas is an <<R, G, B, A>>   *)
(* tuple, and "" stands for a nil error.                                   *)
(***************************************************************************)
EXTENDS Integers, Sequences, FiniteSets, TLC

\* ------------------------------------------------------------- bounds
CanvasW == 2        \* width of the canvas the application attaches
CanvasH == 2        \* height of the canvas the application attaches
WideW == 3          \* width of the canvas under Raw and CopyRect rectangles
WideH == 2          \* height of the canvas under Raw and CopyRect rectangles
HexW == 34          \* width of the canvas under Hextile rectangles
HexH == 1           \* height of the canvas under Hextile rectangles
MaxRects == 2       \* rectangles the server puts on the wire for one update
MaxMsgs == 2        \* messages the incoming loop reads
MaxCalls == 2       \* Close calls one application goroutine makes
MaxSends == 1       \* messages the outgoing loop takes from ClientMessageCh
MaxConns == 2       \* connections the server accepts

Nil == [nil |-> TRUE]
NoErr == ""

Min(a, b) == IF a < b THEN a ELSE b
Max(a, b) == IF a > b THEN a ELSE b
U16(n) == n % 65536
Bit(b, i) == (b \div (2 ^ i)) % 2

\* ------------------------------------------------------------- encoding tags
EncRaw == 0
EncCopyRect == 1
EncRRE == 2
EncCoRRE == 4
EncHextile == 5
EncZlib == 6
EncTight == 7
EncZRLE == 16
EncLastRect == -224
EncCursor == -239
EncPointerPos == -258
EncDesktopSize == -223
\* a tag no Encoding type of the package answers to
EncUnknown == 99

\* pixelFormat of the connection: cfg.PixelFormat, DefaultPixelFormat.BPP
BPP == 32

\* DefaultPixelFormat, the session's pixel format
DefaultPixelFormat ==
    [BPP |-> BPP, Depth |-> 24, BigEndian |-> 0, TrueColor |-> 1,
     RedMax |-> 255, GreenMax |-> 255, BlueMax |-> 255,
     RedShift |-> 16, GreenShift |-> 8, BlueShift |-> 0]

\* a & b on naturals
RECURSIVE BitAnd(_, _)
BitAnd(a, b) ==
    IF a = 0 \/ b = 0 THEN 0
    ELSE (a % 2) * (b % 2) + 2 * BitAnd(a \div 2, b \div 2)

\* ReadPixel: the pixel value of the bytes of one pixel
ReadPixel(bytes, pf) ==
    LET le == [i \in 1 .. (pf.BPP \div 8) |->
                  IF pf.BigEndian # 0 THEN bytes[(pf.BPP \div 8) + 1 - i] ELSE bytes[i]]
    IN  CASE pf.BPP = 8 -> le[1]
          [] pf.BPP = 16 -> le[1] + 256 * le[2]
          [] pf.BPP = 32 -> le[1] + 256 * le[2] + 65536 * le[3] + 16777216 * le[4]

\* PixelToRGBA for a true-colour format with non-zero maxima
PixelToRGBA(pixel, pf) ==
    LET red == BitAnd(pixel \div (2 ^ pf.RedShift), pf.RedMax)
        green == BitAnd(pixel \div (2 ^ pf.GreenShift), pf.GreenMax)
        blue == BitAnd(pixel \div (2 ^ pf.BlueShift), pf.BlueMax)
    IN  <<(red * 255) \div pf.RedMax, (green * 255) \div pf.GreenMax,
          (blue * 255) \div pf.BlueMax, 255>>

\* NewPixelFormat(8), the paletted format, and NewPixelFormatAten()
NewPixelFormat8 ==
    [BPP |-> 8, Depth |-> 8, BigEndian |-> 0, TrueColor |-> 0,
     RedMax |-> 255, GreenMax |-> 255, BlueMax |-> 255,
     RedShift |-> 0, GreenShift |-> 0, BlueShift |-> 0]
NewPixelFormatAten ==
    [BPP |-> 16, Depth |-> 15, BigEndian |-> 0, TrueColor |-> 1,
     RedMax |-> 31, GreenMax |-> 31, BlueMax |-> 31,
     RedShift |-> 10, GreenShift |-> 5, BlueShift |-> 0]

\* color.RGBA{R, G, B, A}
RGBA(r, g, b, a) == [R |-> r, G |-> g, B |-> b, A |-> a]

\* uint8((float64(v) * 255.0) / float64(max)): the quotient is cut off towards
\* zero.  With max = 0 the masked channel v is 0 and the quotient is NaN,
\* whose conversion to uint8 the language leaves to the implementation.
ScaleChannel(v, max) == IF max = 0 THEN 0 .. 255 ELSE {(v * 255) \div max}

\* PixelToRGBA with its colour map: the values the call can return.  cm is Nil
\* or the [256]Color array; under a paletted format the entry itself, a Color
\* of 16-bit R, G and B, is what the return statement names.
PixelToRGBAFrom(pixel, pf, cm) ==
    IF pf.TrueColor = 0
    THEN IF cm # Nil /\ pixel < 256 THEN {cm[pixel]} ELSE {RGBA(0, 0, 0, 255)}
    ELSE LET red == BitAnd(pixel \div (2 ^ pf.RedShift), pf.RedMax)
             green == BitAnd(pixel \div (2 ^ pf.GreenShift), pf.GreenMax)
             blue == BitAnd(pixel \div (2 ^ pf.BlueShift), pf.BlueMax)
         IN  {RGBA(r, g, b, 255) : r \in ScaleChannel(red, pf.RedMax),
                                   g \in ScaleChannel(green, pf.GreenMax),
                                   b \in ScaleChannel(blue, pf.BlueMax)}

\* ------------------------------------------------------------- canvas
\* the pixels of the canvas image
Pts(cv) == DOMAIN cv.img
Zero == <<0, 0, 0, 0>>

\* image.Rect: the rectangle with the corners put in order
ImageRect(x0, y0, x1, y1) ==
    [x0 |-> Min(x0, x1), y0 |-> Min(y0, y1), x1 |-> Max(x0, x1), y1 |-> Max(y0, y1)]

\* image.Rect(int(rect.X), int(rect.Y), int(rect.X+rect.Width), int(rect.Y+rect.Height)):
\* the sums are uint16 sums
RectOf(rect) == ImageRect(rect.x, rect.y, U16(rect.x + rect.w), U16(rect.y + rect.h))

InRect(p, r) == r.x0 <= p[1] /\ p[1] < r.x1 /\ r.y0 <= p[2] /\ p[2] < r.y1

NewVncCanvas(width, height) ==
    [img |-> [p \in (0 .. width - 1) \X (0 .. height - 1) |-> Zero],
     cursorImg |-> Nil, cursorMask |-> Nil,
     cursorX |-> 0, cursorY |-> 0, cursorHotX |-> 0, cursorHotY |-> 0,
     cursorShown |-> FALSE]

\* VncCanvas.fill: draw.Draw of a uniform colour, clipped to the image
fill(cv, col, rect) ==
    [cv EXCEPT !.img = [p \in Pts(cv) |-> IF InRect(p, RectOf(rect)) THEN col ELSE cv.img[p]]]

\* the colour VncCanvas.Fill makes of the colour bytes
FillColor(colorBytes) ==
    LET rgb == IF Len(colorBytes) >= 3
               THEN <<colorBytes[3], colorBytes[2], colorBytes[1]>>
               ELSE <<0, 0, 0>>
        a == IF Len(colorBytes) = 4 THEN colorBytes[4] ELSE 255
    IN  <<rgb[1], rgb[2], rgb[3], a>>

Fill(cv, colorBytes, rect) == fill(cv, FillColor(colorBytes), rect)

\* VncCanvas.drawBytes: pixelData is taken as an RGBA image of the rectangle's
\* size with stride 4*Width, drawn at the rectangle clipped to both images
drawBytes(cv, pixelData, rect) ==
    LET r == RectOf(rect)
        off(p) == (p[2] - r.y0) * (rect.w * 4) + (p[1] - r.x0) * 4
        inSrc(p) == p[1] - r.x0 < rect.w /\ p[2] - r.y0 < rect.h
    IN  [cv EXCEPT !.img =
            [p \in Pts(cv) |->
                IF InRect(p, r) /\ inSrc(p)
                THEN <<pixelData[off(p) + 1], pixelData[off(p) + 2],
                       pixelData[off(p) + 3], pixelData[off(p) + 4]>>
                ELSE cv.img[p]]]

DrawBytes(cv, pixelData, rect) == drawBytes(cv, pixelData, rect)

\* VncCanvas.Copy: draw.Draw of the image onto itself.  The destination
\* rectangle is clipped to the image and to the source translated onto it;
\* every pixel written takes the value its source had before the call.
Copy_Swapped(cv, src, dst, size) ==
    [cv EXCEPT !.img =
        [p \in Pts(cv) |->
            LET q == <<dst[1] + (p[1] - src[1]), dst[2] + (p[2] - src[2])>>
            IN  IF InRect(p, ImageRect(src[1], src[2], src[1] + size[1], src[2] + size[2]))
                   /\ q \in Pts(cv)
                THEN cv.img[q] ELSE cv.img[p]]]
Copy(cv, src, dst, size) ==
    [cv EXCEPT !.img =
        [p \in Pts(cv) |->
            LET q == <<src[1] + (p[1] - dst[1]), src[2] + (p[2] - dst[2])>>
            IN  IF InRect(p, ImageRect(dst[1], dst[2], dst[1] + size[1], dst[2] + size[2]))
                   /\ q \in Pts(cv)
                THEN cv.img[q] ELSE cv.img[p]]]

SetCursor(cv, cursorImg, cursorMask, hotX, hotY) ==
    [cv EXCEPT !.cursorImg = cursorImg, !.cursorMask = cursorMask,
               !.cursorHotX = hotX, !.cursorHotY = hotY]

MoveCursor(cv, x, y) == [cv EXCEPT !.cursorX = x, !.cursorY = y]

\* draw.Over of one source pixel through a mask alpha onto one destination
\* pixel, in the 16-bit arithmetic of image/draw
OverPixel(d, s, ma) ==
    LET m == 65535
        ma16 == ma * 257
        a == m - ((s[4] * 257 * ma16) \div m)
        ch(i) == (((d[i] * 257 * a) + (s[i] * 257 * ma16)) \div m) \div 256
    IN  <<ch(1), ch(2), ch(3), ch(4)>>

\* where PaintCursor puts the cursor image's top-left corner
CursorOrigin(cv) == <<cv.cursorX - cv.cursorHotX, cv.cursorY - cv.cursorHotY>>

PaintCursor(cv) ==
    IF cv.cursorImg = Nil \/ cv.cursorShown THEN cv
    ELSE LET o == CursorOrigin(cv)
             rel(p) == <<p[1] - o[1], p[2] - o[2]>>
             inCur(p) == /\ 0 <= rel(p)[1] /\ rel(p)[1] < cv.cursorImg.w
                         /\ 0 <= rel(p)[2] /\ rel(p)[2] < cv.cursorImg.h
         IN  [cv EXCEPT
                !.img = [p \in Pts(cv) |->
                           IF inCur(p)
                           THEN OverPixel(cv.img[p], cv.cursorImg.pix[rel(p)],
                                          cv.cursorMask.alpha[rel(p)])
                           ELSE cv.img[p]],
                !.cursorShown = TRUE]

RemoveCursor(cv) == [cv EXCEPT !.cursorShown = FALSE]

\* VncCanvas.Image: the image returned and whether its Pix is a slice of its
\* own.  clone := *c.img copies the image header, so that the clone's Pix is
\* the canvas's; clone.Pix = make(...) and copy(...) give it its own bytes.
ImageClone_Shared(cv) == [img |-> cv.img, own |-> FALSE]
ImageClone(cv) == [img |-> cv.img, own |-> TRUE]

\* VncCanvas.Draw: draw.Draw of a decoded image, clipped to both images
Draw(cv, img, rect) ==
    LET r == RectOf(rect)
        inSrc(p) == p[1] - r.x0 < img.w /\ p[2] - r.y0 < img.h
    IN  [cv EXCEPT !.img =
            [p \in Pts(cv) |-> IF InRect(p, r) /\ inSrc(p) THEN img.px ELSE cv.img[p]]]

\* VncCanvas.DrawPalette; the result is [err, cv]
DrawPalette(cv, indexedData, paletteData, bitsPerIndex, rect) ==
    IF bitsPerIndex # 1 /\ bitsPerIndex # 8
    THEN [err |-> "unsupported bitsPerIndex for palette", cv |-> cv]
    ELSE LET bytesPerPixel == Len(paletteData) \div 256
             npix == rect.w * rect.h
             index(i) == IF bitsPerIndex = 8
                         THEN indexedData[i + 1]
                         ELSE Bit(indexedData[(i \div 8) + 1], 7 - (i % 8))
             offset(i) == index(i) * bytesPerPixel
             rgbaData == [k \in 1 .. (npix * 4) |->
                            LET i == (k - 1) \div 4
                                c == (k - 1) % 4
                            IN  IF c = 3 THEN 255 ELSE paletteData[offset(i) + c + 1]]
         IN  [err |-> NoErr, cv |-> drawBytes(cv, rgbaData, rect)]

\* ------------------------------------------------------------- wire data
\* n copies of a 4-byte pattern, cut to n bytes
Repeat4(px, n) == [i \in 1 .. n |-> px[((i - 1) % 4) + 1]]

\* what binary.Read(c, binary.BigEndian, &rect) does for a Rectangle: the struct
\* has the interface-typed field Enc, encoding/binary finds no size for it and
\* returns "binary.Read: invalid type" before it reads a byte
BinaryReadRectangle == [ok |-> FALSE, n |-> 0]

\* ------------------------------------------------------------- zlib
\* An inflate context is [hist, bad]: hist is the sequence of the ids of the
\* compressed blocks it has taken since its stream began, bad holds once it
\* has failed.  A block is [id, len, hdr, full, px]: hdr says that the block
\* starts with a zlib stream header, full that it inflates to as many bytes
\* as are asked for, px is the 4-byte pattern of the bytes it inflates to.

\* zlib.NewReader over one block: it reads the stream header first
ZlibNewReader(data) ==
    IF data.hdr THEN [ok |-> TRUE, z |-> [hist |-> <<data.id>>, bad |-> FALSE]]
    ELSE [ok |-> FALSE, z |-> Nil]

\* zlib.Resetter.Reset over one block: the reader is re-initialised, what it
\* had taken is dropped, and the stream header is read again
ZlibReset(z, data) ==
    IF data.hdr THEN [ok |-> TRUE, z |-> [hist |-> <<data.id>>, bad |-> FALSE]]
    ELSE [ok |-> FALSE, z |-> [hist |-> <<>>, bad |-> TRUE]]

\* reading size bytes from the reader
Inflate(z, data, size) ==
    IF size = 0 \/ data.full THEN [ok |-> TRUE, z |-> z, bytes |-> Repeat4(data.px, size)]
    ELSE [ok |-> FALSE, z |-> [z EXCEPT !.bad = TRUE], bytes |-> <<>>]

\* ------------------------------------------------------------- decoders
\* A decoder works on a session record s: the canvas, the decoders' inflate
\* contexts, n, the payload bytes the call has consumed, and err.

Fail(s, msg) == [s EXCEPT !.err = msg]
Took(s, k) == [s EXCEPT !.n = @ + k]

PointerPosEncodingRead(s, rect) ==
    IF s.canvas = Nil THEN s
    ELSE [s EXCEPT !.canvas = MoveCursor(s.canvas, rect.x, rect.y)]

\* DesktopSizeEncoding.Read: SetWidth and SetHeight; the branch for an attached
\* canvas is empty
DesktopSizeEncodingRead(s, rect) ==
    [s EXCEPT !.fbWidth = rect.w, !.fbHeight = rect.h]

\* CursorEncoding.Read; pl is [bitmap, mask], the bytes on the wire
CursorEncodingRead(s, rect, pl) ==
    LET bytesPerPixel == BPP
        numPixels == U16(rect.w * rect.h)
        rowBytes == (rect.w + 7) \div 8
        s1 == Took(Took(s, numPixels * bytesPerPixel), rowBytes * rect.h)
        cpts == (0 .. rect.w - 1) \X (0 .. rect.h - 1)
        idx(p) == p[2] * rect.w + p[1]
        cursorImg ==
            [w |-> rect.w, h |-> rect.h,
             pix |-> [p \in cpts |->
                        IF bytesPerPixel = 4 /\ idx(p) < numPixels
                        THEN <<pl.bitmap[idx(p) * 4 + 3], pl.bitmap[idx(p) * 4 + 2],
                               pl.bitmap[idx(p) * 4 + 1], 255>>
                        ELSE Zero]]
        cursorMask ==
            [w |-> rect.w, h |-> rect.h,
             alpha |-> [p \in cpts |->
                          IF /\ idx(p) < numPixels
                             /\ Bit(pl.mask[p[2] * rowBytes + (p[1] \div 8) + 1],
                                    7 - (p[1] % 8)) # 0
                          THEN 255 ELSE 0]]
    IN  IF bytesPerPixel = 0 THEN Fail(s, "cursor encoding: bytes per pixel is zero")
        ELSE IF s.canvas = Nil THEN s1
        ELSE [s1 EXCEPT !.canvas = SetCursor(s.canvas, cursorImg, cursorMask, rect.x, rect.y)]

\* RREEncoding.Read up to its first canvas write: the count, the background
\* pixel and the fill of the rectangle; pl is [n, bg, subs]
RREBegin(s, rect, pl) ==
    LET bytesPerPixel == BPP
        s1 == Took(s, 4)
        s2 == Took(s1, bytesPerPixel)
    IN  IF bytesPerPixel = 0 THEN Fail(s1, "rre: bytes per pixel is zero")
        ELSE IF s.canvas = Nil THEN s2
        ELSE [s2 EXCEPT !.canvas = Fill(s.canvas, pl.bg, rect)]

\* one turn of RREEncoding.Read's loop over the sub-rectangles
RRESub(s, rect, sub) ==
    LET s1 == Took(s, BPP)
        hdr == BinaryReadRectangle
        subRect == [x |-> U16(sub.x + rect.x), y |-> U16(sub.y + rect.y),
                    w |-> sub.w, h |-> sub.h]
        s2 == Took(s1, hdr.n)
    IN  IF ~hdr.ok THEN Fail(s2, "rre: failed to read sub-rectangle header")
        ELSE IF s.canvas = Nil THEN s2
        ELSE [s2 EXCEPT !.canvas = Fill(s.canvas, sub.color, subRect)]

RECURSIVE RRELoop(_, _, _, _)
RRELoop(s, rect, pl, i) ==
    IF s.err # NoErr \/ i >= pl.n THEN s
    ELSE RRELoop(RRESub(s, rect, pl.subs[i + 1]), rect, pl, i + 1)

RREEncodingRead(s, rect, pl) == RRELoop(RREBegin(s, rect, pl), rect, pl, 0)

\* PixelFormat.BytesPerPixel, which ZRLEEncoding.Read and CoRREEncoding.Read call: the bytes of a
\* pixel
BytesPerPixel(pf) == pf.BPP \div 8

\* CoRREEncoding.Read; pl is [n, bg, subs].  Without a canvas it returns after
\* the count.  The colours are BytesPerPixel bytes long, and the read of a
\* sub-rectangle header is binary.Read of a Rectangle.
RECURSIVE CoRRELoop(_, _, _, _)
CoRRELoop(s, rect, pl, i) ==
    IF s.err # NoErr \/ i >= pl.n THEN s
    ELSE LET bytesPerPixel == BytesPerPixel(DefaultPixelFormat)
             sub == pl.subs[i + 1]
             s1 == Took(s, bytesPerPixel)
             hdr == BinaryReadRectangle
             s2 == Took(s1, hdr.n)
             subRect == [x |-> U16(sub.x + rect.x), y |-> U16(sub.y + rect.y),
                         w |-> sub.w, h |-> sub.h]
             s3 == IF ~hdr.ok THEN Fail(s2, "corre: failed to read sub-rectangle header")
                   ELSE IF s.canvas = Nil THEN s2
                   ELSE [s2 EXCEPT !.canvas =
                            Fill(s.canvas, SubSeq(sub.color, 1, bytesPerPixel), subRect)]
         IN  CoRRELoop(s3, rect, pl, i + 1)

CoRREEncodingRead(s, rect, pl) ==
    LET bytesPerPixel == BytesPerPixel(DefaultPixelFormat)
        s1 == Took(s, 4)
        s2 == Took(s1, bytesPerPixel)
        filled == [s2 EXCEPT !.canvas = Fill(s.canvas, SubSeq(pl.bg, 1, bytesPerPixel), rect)]
    IN  IF s.canvas = Nil THEN s1
        ELSE IF bytesPerPixel = 0 THEN Fail(s1, "corre: bytes per pixel is zero")
        ELSE CoRRELoop(filled, rect, pl, 0)

\* ZlibEncoding.Read; pl is [len, data]: the length on the wire and the block
ZlibEncodingRead(s, rect, pl) ==
    LET s1 == Took(s, 4)
        s2 == Took(s1, pl.len)
        opened == IF s.zlib = Nil THEN ZlibNewReader(pl.data) ELSE ZlibReset(s.zlib, pl.data)
        s3 == [s2 EXCEPT !.zlib = opened.z]
        uncompressedSize == rect.w * rect.h * BPP
        got == Inflate(opened.z, pl.data, uncompressedSize)
        s4 == [s3 EXCEPT !.zlib = got.z]
    IN  IF pl.len = 0 THEN s1
        ELSE IF ~opened.ok
             THEN Fail(s3, IF s.zlib = Nil THEN "zlib: failed to create zlib reader"
                           ELSE "zlib: failed to reset zlib reader")
        ELSE IF ~got.ok THEN Fail(s4, "zlib: failed to decompress pixel data")
        ELSE IF s.canvas = Nil THEN s4
        ELSE [s4 EXCEPT !.canvas = DrawBytes(s.canvas, got.bytes, rect)]

\* The bytes a block inflates to, as the ZRLE decoder reads them one by one: a
\* block with a field out inflates to that sequence and no more, another one
\* to its 4-byte pattern for as long as it is read, or to nothing.
ZHas(data, i) == IF "out" \in DOMAIN data THEN i <= Len(data.out) ELSE data.full
ZByte(data, i) == IF "out" \in DOMAIN data THEN data.out[i] ELSE data.px[((i - 1) % 4) + 1]

\* ZRLEEncoding.decodeTile: one byte is read for each pixel or run of a row,
\* and nothing is drawn.  The result is [ok, pos], pos the bytes read so far.
RECURSIVE ZRLERow(_, _, _, _, _)
ZRLERow(data, pos, j, w, isRLE) ==
    IF ~(j < w) THEN [ok |-> TRUE, pos |-> pos]
    ELSE IF ~ZHas(data, pos + 1) THEN [ok |-> FALSE, pos |-> pos]
    ELSE LET val == ZByte(data, pos + 1)
             runLength == IF isRLE /\ val \div 128 # 0 THEN (val % 128) + 1 ELSE 1
         IN  ZRLERow(data, pos + 1, U16(j + runLength), w, isRLE)

RECURSIVE DecodeTile(_, _, _, _, _, _)
DecodeTile(data, pos, i, w, h, isRLE) ==
    IF ~(i < h) THEN [ok |-> TRUE, pos |-> pos]
    ELSE LET row == ZRLERow(data, pos, 0, w, isRLE)
         IN  IF ~row.ok THEN row ELSE DecodeTile(data, row.pos, i + 1, w, h, isRLE)

\* the tile loops of ZRLEEncoding.Read from the tile at (x, y) on; z is
\* [ok, err, pos, subs]: subs counts the sub-encoding bytes read
RECURSIVE ZRLELoop(_, _, _, _, _)
ZRLELoop(rect, data, z, x, y) ==
    IF ~z.ok \/ ~(y < rect.h) THEN z
    ELSE IF ~(x < rect.w) THEN ZRLELoop(rect, data, z, 0, U16(y + 16))
    ELSE LET tileW == Min(16, U16(rect.w - x))
             tileH == Min(16, U16(rect.h - y))
             subEncoding == ZByte(data, z.pos + 1)
             paletteSize == subEncoding % 128
             isRLE == subEncoding \div 128 # 0
             afterPalette == z.pos + 1 + paletteSize * BytesPerPixel(DefaultPixelFormat)
             tile == DecodeTile(data, afterPalette, 0, tileW, tileH, isRLE)
         IN  IF ~ZHas(data, z.pos + 1)
             THEN [z EXCEPT !.ok = FALSE, !.err = "zrle: failed to read sub-encoding"]
             ELSE IF paletteSize > 0 /\ ~ZHas(data, afterPalette)
             THEN [z EXCEPT !.ok = FALSE, !.subs = @ + 1,
                            !.err = "zrle: failed to read palette color"]
             ELSE IF ~tile.ok
             THEN [z EXCEPT !.ok = FALSE, !.subs = @ + 1,
                            !.err = "zrle: failed to read tile data"]
             ELSE ZRLELoop(rect, data, [z EXCEPT !.pos = tile.pos, !.subs = @ + 1],
                           U16(x + tileW), y)

NoTiles == [ok |-> TRUE, err |-> NoErr, pos |-> 0, subs |-> 0]

\* ZRLEEncoding.Read: the stream is opened as in ZlibEncoding.Read; the tiles
\* are then read from the inflated bytes and dropped.  The result is [s, z]:
\* the session and what the tile loops read.
ZRLERead(s, rect, pl) ==
    LET s1 == Took(s, 4)
        s2 == Took(s1, pl.len)
        opened == IF s.zrle = Nil THEN ZlibNewReader(pl.data) ELSE ZlibReset(s.zrle, pl.data)
        s3 == [s2 EXCEPT !.zrle = opened.z]
        z == ZRLELoop(rect, pl.data, NoTiles, 0, 0)
    IN  IF pl.len = 0 THEN [s |-> s1, z |-> NoTiles]
        ELSE IF ~opened.ok
             THEN [s |-> Fail(s3, IF s.zrle = Nil THEN "zrle: failed to create zlib reader"
                                  ELSE "zrle: failed to reset zlib reader"),
                   z |-> NoTiles]
        ELSE IF ~z.ok THEN [s |-> Fail([s3 EXCEPT !.zrle.bad = TRUE], z.err), z |-> z]
        ELSE [s |-> s3, z |-> z]

ZRLEEncodingRead(s, rect, pl) == ZRLERead(s, rect, pl).s

\* TightEncoding.readCompressedData's length: lb are the next three bytes of the
\* wire; the result is the length and how many of the bytes were taken
CompactLength_Masked(lb) ==
    IF lb[1] < 128 THEN [length |-> lb[1], used |-> 1]
    ELSE IF lb[2] < 128 THEN [length |-> (lb[1] % 128) + (lb[2] % 128) * 128, used |-> 2]
    ELSE [length |-> (lb[1] % 128) + (lb[2] % 128) * 128 + (lb[3] % 128) * 16384, used |-> 3]
CompactLength(lb) ==
    IF lb[1] < 128 THEN [length |-> lb[1], used |-> 1]
    ELSE IF lb[2] < 128 THEN [length |-> (lb[1] % 128) + (lb[2] % 128) * 128, used |-> 2]
    ELSE [length |-> (lb[1] % 128) + (lb[2] % 128) * 128 + lb[3] * 16384, used |-> 3]

\* TightEncoding.readCompressedData: the session with the bytes taken
ReadCompressedData(s, lb) == Took(s, CompactLength(lb).used + CompactLength(lb).length)

\* TightEncoding.readCompressedData on a stream that holds `have` bytes and
\* starts with the bytes lb: [ok, length, used, n], n the bytes taken.
\* io.ReadFull takes what the stream has before it fails.
ReadCompressedDataFrom(lb, have) ==
    LET c == CompactLength(lb)
    IN  IF have < c.used THEN [ok |-> FALSE, length |-> 0, used |-> have, n |-> have]
        ELSE IF c.length = 0 THEN [ok |-> TRUE, length |-> 0, used |-> c.used, n |-> c.used]
        ELSE IF have - c.used < c.length
        THEN [ok |-> FALSE, length |-> c.length, used |-> c.used, n |-> have]
        ELSE [ok |-> TRUE, length |-> c.length, used |-> c.used, n |-> c.used + c.length]

\* TightPNGEncoding.readCompressedData on the same stream
TightPNGReadCompressedData(lb, have) ==
    LET more1 == lb[1] \div 128 # 0
        more2 == more1 /\ lb[2] \div 128 # 0
        used == IF more2 THEN 3 ELSE IF more1 THEN 2 ELSE 1
        length == (lb[1] % 128) + (IF more1 THEN (lb[2] % 128) * 128 ELSE 0)
                      + (IF more2 THEN lb[3] * 16384 ELSE 0)
    IN  IF have < used THEN [ok |-> FALSE, length |-> 0, used |-> have, n |-> have]
        ELSE IF length = 0 THEN [ok |-> TRUE, length |-> 0, used |-> used, n |-> used]
        ELSE IF have - used < length
        THEN [ok |-> FALSE, length |-> length, used |-> used, n |-> have]
        ELSE [ok |-> TRUE, length |-> length, used |-> used, n |-> used + length]

\* the streams a control byte leaves after the reset loop of TightEncoding.Read
TightResetStreams_High(zlibs, compControl) ==
    [i \in 0 .. 3 |-> IF Bit(compControl, i + 4) # 0 THEN Nil ELSE zlibs[i]]
TightResetStreams(zlibs, compControl) ==
    [i \in 0 .. 3 |-> IF Bit(compControl, i) # 0 THEN Nil ELSE zlibs[i]]

\* TightEncoding.decompress; the result is [ok, zlibs, bytes]
TightDecompress(zlibs, data, uncompressedSize, streamID) ==
    LET opened == IF zlibs[streamID] = Nil THEN ZlibNewReader(data)
                  ELSE ZlibReset(zlibs[streamID], data)
        got == Inflate(opened.z, data, uncompressedSize)
    IN  IF ~opened.ok
        THEN [ok |-> FALSE, zlibs |-> [zlibs EXCEPT ![streamID] =
                                          IF zlibs[streamID] = Nil THEN Nil ELSE opened.z],
              bytes |-> <<>>]
        ELSE [ok |-> got.ok, zlibs |-> [zlibs EXCEPT ![streamID] = got.z], bytes |-> got.bytes]

\* TightEncoding.handleCopy; pl is [cc, lb, data, color, numColors, palette, img]
TightHandleCopy(s, rect, pl, streamID) ==
    LET uncompressedSize == rect.w * BPP * rect.h
        s1 == ReadCompressedData(s, pl.lb)
        d == TightDecompress(s.tight, pl.data, uncompressedSize, streamID)
        s2 == [s1 EXCEPT !.tight = d.zlibs]
    IN  IF CompactLength(pl.lb).length = 0 THEN s1
        ELSE IF ~d.ok THEN Fail(s2, "tight: zlib decompression failed")
        ELSE IF s.canvas = Nil THEN s2
        ELSE [s2 EXCEPT !.canvas = DrawBytes(s.canvas, d.bytes, rect)]

TightHandleFill(s, rect, pl) ==
    LET s1 == Took(s, BPP)
    IN  IF s.canvas = Nil THEN s1
        ELSE [s1 EXCEPT !.canvas = Fill(s.canvas, pl.color, rect)]

\* TightEncoding.handleJPEG and handlePNG; pl.img is what the image decoder
\* makes of the data: [ok, w, h, px]
TightHandleImage(s, rect, pl) ==
    LET s1 == ReadCompressedData(s, pl.lb)
    IN  IF CompactLength(pl.lb).length = 0 THEN s1
        ELSE IF ~pl.img.ok THEN Fail(s1, "tight: failed to decode image")
        ELSE IF s.canvas = Nil THEN s1
        ELSE [s1 EXCEPT !.canvas = Draw(s.canvas, pl.img, rect)]

TightHandlePalette(s, rect, pl, streamID) ==
    LET paletteSize == pl.numColors + 1
        s1 == Took(Took(s, 1), paletteSize * BPP)
        bitsPerIndex == IF paletteSize <= 2 THEN 1 ELSE 8
        rowSize == IF paletteSize <= 2 THEN (rect.w + 7) \div 8 ELSE rect.w
        uncompressedSize == rowSize * rect.h
        s2 == ReadCompressedData(s1, pl.lb)
        \* a zero length hands decompress no data at all: no stream header
        data == IF CompactLength(pl.lb).length = 0
                THEN [pl.data EXCEPT !.hdr = FALSE] ELSE pl.data
        d == TightDecompress(s.tight, data, uncompressedSize, streamID)
        s3 == [s2 EXCEPT !.tight = d.zlibs]
        drawn == DrawPalette(s.canvas, d.bytes, pl.palette, bitsPerIndex, rect)
    IN  IF ~d.ok THEN Fail(s3, "tight: zlib decompression failed")
        ELSE IF s.canvas = Nil THEN s3
        ELSE IF drawn.err # NoErr THEN Fail(s3, drawn.err)
        ELSE [s3 EXCEPT !.canvas = drawn.cv]

TightHandleGradient(s, rect) == Took(s, rect.w * rect.h * BPP)

\* TightEncoding.Read
TightEncodingRead(s, rect, pl) ==
    LET compControl == pl.cc
        s1 == [Took(s, 1) EXCEPT !.tight = TightResetStreams(s.tight, compControl)]
        streamID == (compControl \div 16) % 4
        filterID == ((compControl \div 16) % 8) * 16
        mode == (compControl \div 16) * 16
    IN  IF compControl < 128
        THEN CASE filterID = 64 -> TightHandleGradient(s1, rect)
               [] filterID = 32 -> TightHandlePalette(s1, rect, pl, streamID)
               [] filterID \in {16, 0} -> TightHandleCopy(s1, rect, pl, streamID)
               [] OTHER -> Fail(s1, "tight: unsupported basic filter")
        ELSE CASE mode = 128 -> TightHandleFill(s1, rect, pl)
               [] mode \in {144, 160} -> TightHandleImage(s1, rect, pl)
               [] OTHER -> Fail(s1, "tight: unsupported compression control value")

\* RawEncoding.Read; pl is [px], the bytes that follow the header
RawEncodingRead(s, rect, pl) ==
    LET bytesPerPixel == BPP
        bytesToRead == rect.w * rect.h * bytesPerPixel
        s1 == Took(s, bytesToRead)
    IN  IF bytesPerPixel = 0 THEN Fail(s, "raw: bytes per pixel is zero")
        ELSE IF bytesToRead = 0 THEN s
        ELSE IF s.canvas = Nil THEN s1
        ELSE [s1 EXCEPT !.canvas = DrawBytes(s.canvas, pl.px, rect)]

\* CopyRectEncoding.Read; pl is [srcX, srcY]
CopyRectEncodingRead(s, rect, pl) ==
    LET s1 == Took(s, 4)
    IN  IF s.canvas = Nil THEN s1
        ELSE [s1 EXCEPT !.canvas = Copy(s.canvas, <<pl.srcX, pl.srcY>>,
                                        <<rect.x, rect.y>>, <<rect.w, rect.h>>)]

\* HextileEncoding.Read.  pl is [tiles]; a tile on the wire is
\* [mask, px, bg, fg, subs] and a sub-rectangle [color, g], g its two geometry
\* bytes.  The loop state st is [s, bg, fg, k]: the session, bgColor and
\* fgColor (the empty sequence is the nil slice) and the tiles taken so far.
NilSlice == <<>>

RECURSIVE HextileSubrects(_, _, _, _, _, _, _)
HextileSubrects(s, mask, subs, fgColor, tileX, tileY, i) ==
    IF i > Len(subs) THEN s
    ELSE LET coloured == Bit(mask, 4) # 0
             subRectColor == IF coloured THEN subs[i].color ELSE fgColor
             s1 == Took(IF coloured THEN Took(s, BPP) ELSE s, 2)
             xPos == (subs[i].g[1] \div 16) % 16
             yPos == subs[i].g[1] % 16
             width == (subs[i].g[2] \div 16) % 16
             height == subs[i].g[2] % 16
             sr == [x |-> U16(tileX + xPos), y |-> U16(tileY + yPos),
                    w |-> width + 1, h |-> height + 1]
             s2 == IF s.canvas # Nil /\ subRectColor # NilSlice
                   THEN [s1 EXCEPT !.canvas = Fill(s.canvas, subRectColor, sr)]
                   ELSE s1
         IN  HextileSubrects(s2, mask, subs, fgColor, tileX, tileY, i + 1)

\* a tile with the Raw bit: RawEncoding.Read on the tile, then `continue`
HextileRawTile_Origin(st, tileRect, t) ==
    LET s1 == RawEncodingRead(st.s, [tileRect EXCEPT !.x = 0, !.y = 0], [px |-> t.px])
    IN  [st EXCEPT !.s = s1, !.k = @ + 1]
HextileRawTile_Forget(st, tileRect, t) ==
    LET s1 == RawEncodingRead(st.s, tileRect, [px |-> t.px])
    IN  [s |-> s1, bg |-> NilSlice, fg |-> NilSlice, k |-> st.k + 1]
HextileRawTile(st, tileRect, t) ==
    LET s1 == RawEncodingRead(st.s, tileRect, [px |-> t.px])
    IN  [st EXCEPT !.s = s1, !.k = @ + 1]

\* one turn of the inner loop: the tile at (x, y)
HextileTile(st, rect, t, x, y) ==
    LET tileW == IF U16(x + 16) > U16(rect.x + rect.w) THEN U16(rect.x + rect.w - x) ELSE 16
        tileH == IF U16(y + 16) > U16(rect.y + rect.h) THEN U16(rect.y + rect.h - y) ELSE 16
        tileRect == [x |-> x, y |-> y, w |-> tileW, h |-> tileH]
        s1 == Took(st.s, 1)
        hasBg == Bit(t.mask, 1) # 0
        hasFg == Bit(t.mask, 2) # 0
        bgColor == IF hasBg THEN t.bg ELSE st.bg
        fgColor == IF hasFg THEN t.fg ELSE st.fg
        s2 == Took(s1, (IF hasBg THEN BPP ELSE 0) + (IF hasFg THEN BPP ELSE 0))
        filled == IF s2.canvas # Nil /\ bgColor # NilSlice
                  THEN [s2 EXCEPT !.canvas = Fill(s2.canvas, bgColor, tileRect)]
                  ELSE s2
        s3 == IF Bit(t.mask, 3) # 0
              THEN HextileSubrects(Took(filled, 1), t.mask, t.subs, fgColor, x, y, 1)
              ELSE filled
    IN  IF Bit(t.mask, 0) # 0 THEN HextileRawTile([st EXCEPT !.s = s1], tileRect, t)
        ELSE [s |-> s3, bg |-> bgColor, fg |-> fgColor, k |-> st.k + 1]

\* the two loops, from the tile at (x, y) on; x, y and the bounds are uint16.
\* When the stream has no tile left the read of the mask fails.
RECURSIVE HextileLoop(_, _, _, _, _)
HextileLoop(st, rect, pl, x, y) ==
    IF st.s.err # NoErr \/ ~(y < U16(rect.y + rect.h)) THEN st.s
    ELSE IF ~(x < U16(rect.x + rect.w)) THEN HextileLoop(st, rect, pl, rect.x, U16(y + 16))
    ELSE IF st.k + 1 > Len(pl.tiles)
    THEN Fail(st.s, "hextile: failed to read sub-encoding mask")
    ELSE HextileLoop(HextileTile(st, rect, pl.tiles[st.k + 1], x, y), rect, pl, U16(x + 16), y)

HextileEncodingRead(s, rect, pl) ==
    IF BPP = 0 THEN Fail(s, "hextile: bytes per pixel is zero")
    ELSE HextileLoop([s |-> s, bg |-> NilSlice, fg |-> NilSlice, k |-> 0], rect, pl,
                     rect.x, rect.y)

\* ------------------------------------------------------------- dispatch
\* ClientConn.encodings: the decoders the configuration registers.  No Encoding
\* type of the package has the type EncLastRect.
Encodings ==
    {EncRaw, EncCopyRect, EncRRE, EncCoRRE, EncHextile, EncZlib, EncTight, EncZRLE,
     EncCursor, EncPointerPos, EncDesktopSize}

\* ClientConn.GetEncInstance
GetEncInstance_Any(typ) == [typ |-> typ]
GetEncInstance(typ) == IF typ \in Encodings THEN [typ |-> typ] ELSE Nil

\* enc.Read(c, &rect)
EncRead(e, s, rect, pl) ==
    LET enc == IF e = Nil THEN EncUnknown ELSE e.typ IN
    CASE enc = EncPointerPos -> PointerPosEncodingRead(s, rect)
      [] enc = EncDesktopSize -> DesktopSizeEncodingRead(s, rect)
      [] enc = EncRaw -> RawEncodingRead(s, rect, pl)
      [] enc = EncCopyRect -> CopyRectEncodingRead(s, rect, pl)
      [] enc = EncHextile -> HextileEncodingRead(s, rect, pl)
      [] enc = EncCursor -> CursorEncodingRead(s, rect, pl)
      [] enc = EncRRE -> RREEncodingRead(s, rect, pl)
      [] enc = EncCoRRE -> CoRREEncodingRead(s, rect, pl)
      [] enc = EncZlib -> ZlibEncodingRead(s, rect, pl)
      [] enc = EncZRLE -> ZRLEEncodingRead(s, rect, pl)
      [] enc = EncTight -> TightEncodingRead(s, rect, pl)
      [] OTHER -> s

\* the checks of one turn of the loop of FramebufferUpdateMessage.Read: the
\* error of the header read, the nil decoder, else the decoder is called
FbuRectOutcome(hdrOk, enc) ==
    IF ~hdrOk THEN "header" ELSE IF enc = Nil THEN "unsupported" ELSE "decode"

\* The loop of FramebufferUpdateMessage.Read from rectangle i on.  f is
\* [s, hdr, attempted, decoded]: the session, the header bytes consumed, the
\* rectangles whose header read was begun, the tags whose decoder was called.
\* wire holds the rectangles the server has sent: [x, y, w, h, tag, pl].
RECURSIVE FbuLoop(_, _, _, _)
FbuLoop(f, numRects, wire, i) ==
    IF i >= numRects THEN f
    ELSE LET hdr == BinaryReadRectangle
             avail == i < Len(wire)
             r == wire[i + 1]
             outcome == IF avail THEN FbuRectOutcome(hdr.ok, GetEncInstance(r.tag))
                        ELSE IF hdr.ok THEN "eof" ELSE "header"
             f1 == [f EXCEPT !.attempted = i + 1, !.hdr = @ + hdr.n]
             f2 == [f1 EXCEPT !.hdr = @ + 4]
             f3 == [f2 EXCEPT !.s = EncRead(GetEncInstance(r.tag), f2.s, r, r.pl),
                              !.decoded = Append(@, r.tag)]
         IN  CASE outcome = "header" -> [f1 EXCEPT !.s = Fail(@, "binary.Read: invalid type")]
               [] outcome = "eof" -> [f1 EXCEPT !.s = Fail(@, "EOF")]
               [] outcome = "unsupported" -> [f2 EXCEPT !.s = Fail(@, "unsupported encoding")]
               [] OTHER -> IF f3.s.err # NoErr THEN f3
                           ELSE FbuLoop(f3, numRects, wire, i + 1)

\* FramebufferUpdateMessage.Read on session s
FbuRead(s, numRects, wire) ==
    FbuLoop([s |-> Took(s, 3), hdr |-> 0, attempted |-> 0, decoded |-> <<>>],
            numRects, wire, 0)

\* handleIncomingMessages after msg.Read: an error ends the loop
AfterRead_Continue(err) == "paint"
AfterRead(err) == IF err # NoErr THEN "done" ELSE "paint"

\* ------------------------------------------------------------- inputs
ServerFramebufferUpdate == 0
ServerBell == 2
\* a message type the configuration has no handler for
ServerUnknown == 9

\* a pixel on the wire: BPP bytes, as the decoders read it
PixelBytes(c) == [i \in 1 .. BPP |-> IF i <= 4 THEN c[i] ELSE 0]
WireBlue == PixelBytes(<<255, 0, 0, 0>>)
WireRed == PixelBytes(<<0, 0, 255, 0>>)

NoPl == [none |-> TRUE]
Geom(x, y, w, h) == [x |-> x, y |-> y, w |-> w, h |-> h]
Wire(g, tag, pl) == [x |-> g.x, y |-> g.y, w |-> g.w, h |-> g.h, tag |-> tag, pl |-> pl]

Geoms == {Geom(0, 0, 2, 2), Geom(1, 0, 1, 1), Geom(1, 1, 2, 1)}

CursorPls == {[bitmap |-> Repeat4(<<0, 0, 255, 0>>, 2 * BPP), mask |-> <<m>>] : m \in {128, 192}}
CursorGeoms == {Geom(1, 0, 2, 1), Geom(0, 0, 1, 1)}
PointerGeoms == {Geom(1, 1, 0, 0), Geom(0, 1, 0, 0)}

RRESubs == {<<>>, <<[color |-> WireRed, x |-> 1, y |-> 0, w |-> 1, h |-> 1]>>}
RREPls == {[n |-> Len(subs), bg |-> bg, subs |-> subs] : subs \in RRESubs, bg \in {WireBlue, WireRed}}

Blocks ==
    {[id |-> 1, hdr |-> TRUE, full |-> TRUE, px |-> <<0, 255, 0, 255>>],
     [id |-> 2, hdr |-> TRUE, full |-> TRUE, px |-> <<0, 255, 0, 255>>],
     [id |-> 2, hdr |-> FALSE, full |-> TRUE, px |-> <<0, 255, 0, 255>>],
     [id |-> 2, hdr |-> TRUE, full |-> FALSE, px |-> <<0, 255, 0, 255>>]}
ZlibPls == {[len |-> l, data |-> b] : l \in {0, 5}, b \in Blocks}

\* the rectangles an update carries in the model
WireRects ==
    {Wire(Geom(1, 0, 2, 1), EncCursor, [bitmap |-> Repeat4(Zero, 2 * BPP), mask |-> <<192>>]),
     Wire(Geom(1, 1, 0, 0), EncPointerPos, NoPl),
     Wire(Geom(0, 0, 2, 2), EncRRE, [n |-> 0, bg |-> WireBlue, subs |-> <<>>]),
     Wire(Geom(0, 0, 0, 0), EncLastRect, NoPl),
     Wire(Geom(0, 0, 1, 1), EncUnknown, NoPl)}
Wires == UNION {[1 .. n -> WireRects] : n \in 0 .. MaxRects}
NumRects == {0, 1, 2, 65535}

\* ------------------------------------------------------------- state
VARIABLES
    canvas,     \* ClientConn.Canvas: Nil until the application attaches one
    zlibEnc,    \* ZlibEncoding.zlibReader
    zrleEnc,    \* ZRLEEncoding.zlibReader
    tightEnc,   \* TightEncoding.zlibs
    pc,         \* handleIncomingMessages: "loop", "body", "paint", "done"
    msg,        \* the type of the message the loop is handling
    closed,     \* ClientConn.closed
    msgsRead,   \* message types the loop has read
    delivered,  \* messages sent to ServerMessageCh
    fbu,        \* what the last FramebufferUpdateMessage.Read did
    last,       \* what the last decoder call made through Rectangle.Read did
    fbWidth,    \* ClientConn.fbWidth
    fbHeight,   \* ClientConn.fbHeight
    dec,        \* the RRE rectangle a decoder call is in the middle of, or Nil
    snap,       \* the last snapshot VncCanvas.Image() returned, or Nil
    quitClosed, \* how many times close(c.quit) has run
    connClosed, \* how many times c.c.Close() has run
    wg,         \* the counter of ClientConn.wg
    procs,      \* where each goroutine is, and what its last Close call did
    bw,         \* ClientConn.bw: the buffered writes and the sticky error
    sent,       \* the writes that reached the underlying connection
    conns,      \* the server's connections: where handleConnection is
    srvQuit     \* the server's quit channel is closed

encVars == <<zlibEnc, zrleEnc, tightEnc>>
connVars == <<fbWidth, fbHeight>>
loopVars == <<pc, msg, closed, msgsRead, delivered, fbu>>
drvVars == <<last, dec, snap>>
lifeVars == <<quitClosed, connClosed, wg, procs, bw, sent>>
srvVars == <<conns, srvQuit>>
vars == <<canvas, zlibEnc, zrleEnc, tightEnc, pc, msg, closed, msgsRead, delivered, fbu,
          last, dec, snap, fbWidth, fbHeight, quitClosed, connClosed, wg, procs, bw, sent,
          conns, srvQuit>>

\* the two message goroutines, the application's goroutines that call Close,
\* the one that runs the message handler and the one that calls Wait
Goroutines == {"in", "out"}
Apps == {"app1", "app2"}
Procs == Goroutines \cup Apps \cup {"handle", "waiter"}
\* a goroutine that has not started: calls counts the Close calls an
\* application goroutine has made and the messages the outgoing loop has taken,
\* first says that its Close call found the connection open, ret is what its
\* last call returned
NoProc == [pc |-> "idle", calls |-> 0, first |-> FALSE, ret |-> "none"]
\* the connections the server accepts
Conns == 1 .. MaxConns
\* a connection the server has not accepted yet: shook says that every
\* handshake handler has returned nil, closes counts the calls of c.Close()
NoConn == [pc |-> "none", shook |-> FALSE, closed |-> FALSE, closes |-> 0, wg |-> 0,
           peerClosed |-> FALSE]

NoFbu == [ran |-> FALSE]
NoLast == [ran |-> FALSE, tick |-> 0]

\* the connection after the handshake, whose ServerInit gave the framebuffer
\* size w x h
Connected(w, h) ==
    /\ fbWidth = w
    /\ fbHeight = h
    /\ canvas = Nil
    /\ zlibEnc = Nil
    /\ zrleEnc = Nil
    /\ tightEnc = [i \in 0 .. 3 |-> Nil]
    /\ pc = "loop"
    /\ msg = ServerFramebufferUpdate
    /\ closed = FALSE
    /\ msgsRead = 0
    /\ delivered = 0
    /\ fbu = NoFbu
    /\ last = NoLast
    /\ dec = Nil
    /\ snap = Nil
    /\ quitClosed = 0
    /\ connClosed = 0
    /\ wg = 0
    /\ procs = [p \in Procs |-> NoProc]
    /\ bw = [buf |-> <<>>, err |-> FALSE]
    /\ sent = <<>>
    /\ conns = [c \in Conns |-> NoConn]
    /\ srvQuit = FALSE

Init == Connected(CanvasW, CanvasH)
InitWide == Connected(WideW, WideH)
InitHex == Connected(HexW, HexH)

\* the session the decoders work on
Sess == [canvas |-> canvas, zlib |-> zlibEnc, zrle |-> zrleEnc, tight |-> tightEnc,
         fbWidth |-> fbWidth, fbHeight |-> fbHeight, n |-> 0, err |-> NoErr]

Install(s) ==
    /\ canvas' = s.canvas
    /\ zlibEnc' = s.zlib
    /\ zrleEnc' = s.zrle
    /\ tightEnc' = s.tight
    /\ fbWidth' = s.fbWidth
    /\ fbHeight' = s.fbHeight

\* the application, after Connect: clientConn.Canvas =
\* NewVncCanvas(int(clientConn.Width()), int(clientConn.Height()), ...)
AttachCanvas ==
    /\ canvas = Nil
    /\ canvas' = NewVncCanvas(fbWidth, fbHeight)
    /\ UNCHANGED <<encVars, connVars, loopVars, lifeVars, srvVars, drvVars>>

\* ClientConn.Close called by the application
Close ==
    /\ ~closed
    /\ closed' = TRUE
    /\ UNCHANGED <<canvas, encVars, connVars, pc, msg, msgsRead, delivered, fbu, drvVars,
                 lifeVars, srvVars>>

\* handleIncomingMessages from the top of the loop to msg.Read: the quit check,
\* the read of the message type, the handler lookup, RemoveCursor
RecvMessage(msgType) ==
    /\ pc = "loop"
    /\ msgsRead < MaxMsgs
    /\ IF closed
       THEN /\ pc' = "done"
            /\ UNCHANGED <<canvas, msg, msgsRead>>
       ELSE /\ msgsRead' = msgsRead + 1
            /\ IF msgType \in {ServerFramebufferUpdate, ServerBell}
               THEN /\ pc' = "body"
                    /\ msg' = msgType
                    /\ canvas' = IF canvas = Nil THEN Nil ELSE RemoveCursor(canvas)
               ELSE /\ pc' = "done"
                    /\ UNCHANGED <<canvas, msg>>
    /\ closed' = (closed \/ pc' = "done")
    /\ UNCHANGED <<encVars, connVars, delivered, fbu, drvVars,
                 lifeVars, srvVars>>

\* msg.Read for a FramebufferUpdate, and the loop's error check after it
ReadFramebufferUpdate(numRects, wire) ==
    /\ pc = "body"
    /\ msg = ServerFramebufferUpdate
    /\ \E f \in {FbuRead(Sess, numRects, wire)} :
           /\ Install(f.s)
           /\ fbu' = [ran |-> TRUE, seq |-> msgsRead, numRects |-> numRects,
                      wire |-> wire,
                      n |-> f.s.n, hdr |-> f.hdr, attempted |-> f.attempted,
                      decoded |-> f.decoded, err |-> f.s.err,
                      sent |-> FALSE, deliveredBefore |-> delivered]
           /\ pc' = AfterRead(f.s.err)
    /\ closed' = (closed \/ pc' = "done")
    /\ UNCHANGED <<msg, msgsRead, delivered, drvVars,
                 lifeVars, srvVars>>

\* msg.Read for a FramebufferUpdate on a socket that Close has closed: the
\* first read may fail
ReadFails ==
    /\ pc = "body"
    /\ msg = ServerFramebufferUpdate
    /\ closed
    /\ fbu' = [ran |-> TRUE, seq |-> msgsRead, numRects |-> 0, wire |-> <<>>,
               n |-> 0, hdr |-> 0, attempted |-> 0, decoded |-> <<>>,
               err |-> "use of closed network connection",
               sent |-> FALSE, deliveredBefore |-> delivered]
    /\ pc' = AfterRead(fbu'.err)
    /\ UNCHANGED <<canvas, encVars, connVars, msg, closed, msgsRead, delivered, drvVars,
                 lifeVars, srvVars>>

\* msg.Read for a bell: ServerBellMessage.Read reads nothing
ReadBell ==
    /\ pc = "body"
    /\ msg = ServerBell
    /\ pc' = AfterRead(NoErr)
    /\ closed' = (closed \/ pc' = "done")
    /\ UNCHANGED <<canvas, encVars, connVars, msg, msgsRead, delivered, fbu, drvVars,
                 lifeVars, srvVars>>

\* PaintCursor and the send to ServerMessageCh; with quit closed the select
\* may take either branch
PaintAndDeliver(send) ==
    /\ pc = "paint"
    /\ canvas' = IF canvas = Nil THEN Nil ELSE PaintCursor(canvas)
    /\ IF send \/ ~closed
       THEN /\ delivered' = delivered + 1
            /\ fbu' = IF msg = ServerFramebufferUpdate THEN [fbu EXCEPT !.sent = TRUE] ELSE fbu
            /\ pc' = "loop"
            /\ UNCHANGED closed
       ELSE /\ pc' = "done"
            /\ UNCHANGED <<delivered, fbu, closed>>
    /\ UNCHANGED <<encVars, connVars, msg, msgsRead, drvVars, lifeVars, srvVars>>

\* ------------------------------------------------------------- Rectangle.Read
\* Rectangle.Read: the twelve header bytes field by field, the decoder lookup,
\* the decoder; r is the rectangle on the wire
RectangleRead(s, r) ==
    LET s0 == Took(s, 12)
        enc == GetEncInstance(r.tag)
    IN  IF enc = Nil THEN Fail(s0, "unsupported encoding") ELSE EncRead(enc, s0, r, r.pl)

NoInfo == [cc |-> 0, id |-> 0, len |-> 0, src |-> <<0, 0>>, pl |-> NoPl, z |-> NoTiles]
Did(r, s, info) ==
    [ran |-> TRUE, tick |-> 1 - last.tick, tag |-> r.tag, rect |-> Geom(r.x, r.y, r.w, r.h),
     n |-> s.n, err |-> s.err,
     cc |-> info.cc, id |-> info.id, len |-> info.len, src |-> info.src, pl |-> info.pl, z |-> info.z]

\* one whole call of Rectangle.Read
Decode(r, info) ==
    /\ \E s \in {RectangleRead(Sess, r)} :
           /\ Install(s)
           /\ last' = Did(r, s, info)
    /\ UNCHANGED <<loopVars, lifeVars, srvVars, dec, snap>>

ReadPointerPos ==
    /\ dec = Nil
    /\ \E g \in PointerGeoms : Decode(Wire(g, EncPointerPos, NoPl), NoInfo)

ReadCursor ==
    /\ dec = Nil
    /\ \E g \in CursorGeoms, pl \in CursorPls : Decode(Wire(g, EncCursor, pl), NoInfo)

ReadUnsupported ==
    /\ dec = Nil
    /\ Decode(Wire(Geom(0, 0, 1, 1), EncUnknown, NoPl), NoInfo)

\* Rectangle.Read of an RRE rectangle up to the end of the background fill,
\* where the canvas lock is released
ReadRREBegin ==
    \E g \in Geoms, pl \in RREPls :
        /\ dec = Nil
        /\ \E s \in {RREBegin(Took(Sess, 12), g, pl)} :
               /\ Install(s)
               /\ IF s.err # NoErr \/ pl.n = 0
                  THEN /\ last' = Did(Wire(g, EncRRE, pl), s, [NoInfo EXCEPT !.pl = pl])
                       /\ dec' = Nil
                  ELSE /\ dec' = [rect |-> g, pl |-> pl, i |-> 0, n |-> s.n,
                                  before |-> IF canvas = Nil THEN Nil ELSE canvas.img]
                       /\ UNCHANGED last
        /\ UNCHANGED <<loopVars, lifeVars, srvVars, snap>>

\* one turn of the sub-rectangle loop of the RRE rectangle being decoded
ReadRRESub ==
    /\ dec # Nil
    /\ \E s \in {RRESub([Sess EXCEPT !.n = dec.n], dec.rect, dec.pl.subs[dec.i + 1])} :
           /\ Install(s)
           /\ IF s.err # NoErr \/ dec.i + 1 >= dec.pl.n
              THEN /\ last' = Did(Wire(dec.rect, EncRRE, dec.pl), s, [NoInfo EXCEPT !.pl = dec.pl])
                   /\ dec' = Nil
              ELSE /\ dec' = [dec EXCEPT !.i = @ + 1, !.n = s.n]
                   /\ UNCHANGED last
    /\ UNCHANGED <<loopVars, lifeVars, srvVars, snap>>

\* VncCanvas.Image called from another goroutine: a copy of the pixels, taken
\* under the read lock
Image ==
    /\ canvas # Nil
    /\ snap' = [img |-> ImageClone(canvas).img, own |-> ImageClone(canvas).own,
                writes |-> 0, mid |-> dec # Nil,
                before |-> IF dec # Nil THEN dec.before ELSE canvas.img]
    /\ UNCHANGED <<canvas, encVars, connVars, loopVars, lifeVars, srvVars, last, dec>>

ReadZlib ==
    /\ dec = Nil
    /\ \E g \in Geoms, pl \in ZlibPls :
        Decode(Wire(g, EncZlib, pl), [NoInfo EXCEPT !.id = pl.data.id, !.len = pl.len])

ReadZRLE ==
    /\ dec = Nil
    /\ \E g \in Geoms, pl \in ZlibPls :
        Decode(Wire(g, EncZRLE, pl), [NoInfo EXCEPT !.id = pl.data.id, !.len = pl.len])

\* control bytes: copy on streams 0 and 1, palette on stream 2, the same with
\* reset bits, fill with and without reset bits, gradient, JPEG, and two bytes
\* that name no filter
TightControls == {0, 16, 32, 1, 18, 128, 130, 143, 64, 144, 48, 176}
\* the palette entries of the Tight rectangles, less one
TightNumColors == 1
TightPl(cc, l, b) ==
    [cc |-> cc, lb |-> <<l, 0, 0>>, data |-> b, color |-> WireRed, numColors |-> TightNumColors,
     palette |-> WireBlue \o WireRed,
     img |-> [ok |-> TRUE, w |-> 2, h |-> 2, px |-> <<0, 255, 0, 255>>]]
\* the control bytes whose rectangle carries zlib data take every block; the
\* others take one payload
TightPls ==
    {TightPl(cc, 5, b) : cc \in {0, 16, 32, 1, 18}, b \in Blocks}
        \cup {TightPl(cc, l, CHOOSE b \in Blocks : b.id = 1) :
                cc \in TightControls, l \in {0, 5}}

ReadTight ==
    /\ dec = Nil
    /\ \E g \in {Geom(0, 0, 2, 2)}, pl \in TightPls :
        Decode(Wire(g, EncTight, pl),
               [NoInfo EXCEPT !.cc = pl.cc, !.id = pl.data.id,
                               !.len = CompactLength(pl.lb).length])

\* the bytes a length field is made of, and the sizes of the stream it heads
LengthBytes == {0, 1, 127, 128, 129, 255}
StreamSizes == {0, 1, 2, 3, 8, 2 ^ 23}

\* readCompressedData of both decoders on one stream
ReadLength ==
    /\ dec = Nil
    /\ \E b1 \in LengthBytes, b2 \in LengthBytes, b3 \in LengthBytes, have \in StreamSizes :
           last' = [ran |-> TRUE, tick |-> 1 - last.tick, tag |-> EncTight,
                    lb |-> <<b1, b2, b3>>, have |-> have,
                    tight |-> ReadCompressedDataFrom(<<b1, b2, b3>>, have),
                    png |-> TightPNGReadCompressedData(<<b1, b2, b3>>, have)]
    /\ UNCHANGED <<canvas, encVars, connVars, loopVars, lifeVars, srvVars, dec, snap>>

\* the application attaches a canvas of the wide size
AttachWide ==
    /\ canvas = Nil
    /\ canvas' = NewVncCanvas(WideW, WideH)
    /\ UNCHANGED <<encVars, connVars, loopVars, lifeVars, srvVars, drvVars>>

\* Raw rectangles: the pixels alternate between two wire pixels, and the bytes
\* the decoder takes beyond them are zero
RawColours == {<<255, 0, 0, 0>>, <<0, 255, 0, 0>>}
RawGeoms == {Geom(0, 0, 2, 1), Geom(1, 0, 1, 2), Geom(2, 1, 1, 1), Geom(0, 1, 0, 1)}
RawBytes(g, c1, c2) ==
    [i \in 1 .. g.w * g.h * BPP |->
        IF i > g.w * g.h * 4 THEN 0
        ELSE (IF ((i - 1) \div 4) % 2 = 0 THEN c1 ELSE c2)[((i - 1) % 4) + 1]]

ReadRaw ==
    /\ dec = Nil
    /\ \E g \in RawGeoms, c1 \in RawColours, c2 \in RawColours :
        Decode(Wire(g, EncRaw, [px |-> RawBytes(g, c1, c2)]),
               [NoInfo EXCEPT !.pl = [px |-> RawBytes(g, c1, c2)]])

\* CopyRect rectangles: sources left of, right of and below the destination,
\* overlapping it or not, and one that reaches beyond the image
CopyGeoms == {Geom(1, 0, 2, 1), Geom(0, 0, 2, 1), Geom(0, 0, 2, 2), Geom(0, 1, 1, 1)}
CopySrcs == {<<0, 0>>, <<1, 0>>, <<0, 1>>, <<2, 0>>}

ReadCopyRect ==
    /\ dec = Nil
    /\ \E g \in CopyGeoms, src \in CopySrcs :
        Decode(Wire(g, EncCopyRect, [srcX |-> src[1], srcY |-> src[2]]),
               [NoInfo EXCEPT !.src = src])

\* the application attaches a canvas of the size for Hextile rectangles
AttachHex ==
    /\ canvas = Nil
    /\ canvas' = NewVncCanvas(HexW, HexH)
    /\ UNCHANGED <<encVars, connVars, loopVars, lifeVars, srvVars, drvVars>>

\* Hextile rectangles of three tiles in a row, the last one narrow.  The
\* first tile gives both colours, or the background, or both and a
\* sub-rectangle, or nothing; the second is raw, or gives nothing, or has a
\* sub-rectangle with its own colour; the third gives nothing, or has a
\* sub-rectangle in the carried foreground or with its own colour.
WireGreen == PixelBytes(<<0, 255, 0, 0>>)
HexGeom == Geom(0, 0, HexW, HexH)
HexSub(c) == <<[color |-> c, g |-> <<0, 0>>]>>
HexTile(mask, bg, fg, subs) ==
    [mask |-> mask,
     px |-> IF Bit(mask, 0) # 0
            THEN RawBytes(Geom(0, 0, 16, HexH), <<255, 0, 0, 0>>, <<0, 255, 0, 0>>)
            ELSE NilSlice,
     bg |-> bg, fg |-> fg, subs |-> subs]
HexGiven == HexTile(6, WireBlue, WireRed, <<>>)
HexBackground == HexTile(2, WireRed, NilSlice, <<>>)
HexGivenSub == HexTile(14, WireGreen, WireBlue, HexSub(NilSlice))
HexRaw == HexTile(1, NilSlice, NilSlice, <<>>)
HexCarried == HexTile(0, NilSlice, NilSlice, <<>>)
HexCarriedSub == HexTile(8, NilSlice, NilSlice, HexSub(NilSlice))
HexColouredSub == HexTile(24, NilSlice, NilSlice, HexSub(WireGreen))
HexPls ==
    {[tiles |-> <<t1, t2, t3>>] :
        t1 \in {HexGiven, HexBackground, HexGivenSub, HexCarried},
        t2 \in {HexRaw, HexCarried, HexColouredSub},
        t3 \in {HexCarried, HexCarriedSub, HexColouredSub}}

ReadHextile ==
    /\ dec = Nil
    /\ \E pl \in HexPls :
        Decode(Wire(HexGeom, EncHextile, pl), [NoInfo EXCEPT !.pl = pl])

\* Hextile rectangles at the far edge of the 16-bit coordinates and away from
\* it, one tile or two wide or high.  Every tile carries its colours over, and
\* the stream holds more mask bytes than the rectangle has tiles.
EdgeGeoms ==
    {Geom(x, 0, w, 1) : x \in {0, 65519, 65520, 65530}, w \in {10, 15, 16, 17}}
        \cup {Geom(0, y, 1, h) : y \in {65519, 65520, 65530}, h \in {10, 15, 16}}
EdgeStreams == {4, 6}
EdgePls == {[tiles |-> [i \in 1 .. n |-> HexCarried]] : n \in EdgeStreams}

ReadHextileEdge ==
    /\ dec = Nil
    /\ \E g \in EdgeGeoms, pl \in EdgePls :
        Decode(Wire(g, EncHextile, pl), [NoInfo EXCEPT !.pl = pl])

\* Hextile rectangles of three raw tiles, each with its own pixels
HexRawOf(c1, c2) == [HexRaw EXCEPT !.px = RawBytes(Geom(0, 0, 16, HexH), c1, c2)]
HexRawPls ==
    {[tiles |-> <<HexRawOf(a1, a2), HexRawOf(b1, b2), HexRawOf(c1, c1)>>] :
        a1 \in RawColours, a2 \in RawColours, b1 \in RawColours, b2 \in RawColours,
        c1 \in RawColours}

ReadHextileRaw ==
    /\ dec = Nil
    /\ \E pl \in HexRawPls :
        Decode(Wire(HexGeom, EncHextile, pl), [NoInfo EXCEPT !.pl = pl])

\* ZRLE rectangles of one block each.  The block inflates to a sub-encoding
\* byte, a green compact pixel, and then zero bytes or none: the sub-encodings
\* are raw, solid, two reserved ones, plain RLE and a packed palette
ZSubs == {0, 1, 17, 129, 128, 16}
ZPads == {0, 96}
GreenCPixel == <<0, 255, 0>>
ZBlock(sub, pad) ==
    [id |-> 3, hdr |-> TRUE, full |-> TRUE, px |-> Zero,
     out |-> <<sub>> \o GreenCPixel \o [i \in 1 .. pad |-> 0]]
ZGeoms == {Geom(0, 0, 1, 1), Geom(0, 0, 2, 1), Geom(0, 0, 17, 1)}
ZPls == {[len |-> 5, data |-> ZBlock(sub, pad)] : sub \in ZSubs, pad \in ZPads}

ReadZRLETiles ==
    /\ dec = Nil
    /\ \E g \in ZGeoms, pl \in ZPls :
        Decode(Wire(g, EncZRLE, pl),
               [NoInfo EXCEPT !.id = pl.data.id, !.len = pl.len, !.pl = pl,
                               !.z = ZRLERead(Sess, g, pl).z])

\* ------------------------------------------------------------- specifications
\* the incoming message loop with the update dispatcher, and Rectangle.Read on
\* a tag without a decoder
Next ==
    \/ AttachCanvas
    \/ Close
    \/ \E msgType \in {ServerFramebufferUpdate, ServerBell, ServerUnknown} : RecvMessage(msgType)
    \/ \E numRects \in NumRects, wire \in Wires : ReadFramebufferUpdate(numRects, wire)
    \/ ReadFails
    \/ ReadBell
    \/ \E send \in BOOLEAN : PaintAndDeliver(send)
    \/ ReadUnsupported

Spec == Init /\ [][Next]_vars

\* the canvas under RRE rectangles read with Rectangle.Read and a concurrent
\* reader
NextCanvas ==
    \/ AttachCanvas
    \/ ReadRREBegin
    \/ ReadRRESub
    \/ Image

SpecCanvas == Init /\ [][NextCanvas]_vars

\* the cursor: Cursor and PointerPos rectangles read with Rectangle.Read, and
\* the message loop on bells, which hides and paints the cursor
NextCursor ==
    \/ AttachCanvas
    \/ ReadPointerPos
    \/ ReadCursor
    \/ RecvMessage(ServerBell)
    \/ ReadBell
    \/ PaintAndDeliver(TRUE)

SpecCursor == Init /\ [][NextCursor]_vars

\* the Zlib and ZRLE decoders under rectangles read with Rectangle.Read
NextZlib ==
    \/ AttachCanvas
    \/ ReadZlib
    \/ ReadZRLE

SpecZlib == Init /\ [][NextZlib]_vars

\* the Tight decoder under rectangles read with Rectangle.Read
NextTight ==
    \/ AttachCanvas
    \/ ReadTight

SpecTight == Init /\ [][NextTight]_vars

\* the compact-length readers of Tight and TightPNG on the same stream
NextCompact ==
    \/ ReadLength

SpecCompact == Init /\ [][NextCompact]_vars

\* the Raw and CopyRect decoders under rectangles read with Rectangle.Read
NextBlit ==
    \/ AttachWide
    \/ ReadRaw
    \/ ReadCopyRect

SpecBlit == InitWide /\ [][NextBlit]_vars

\* the Hextile decoder under rectangles read with Rectangle.Read
NextHextile ==
    \/ AttachHex
    \/ ReadHextile

SpecHextile == InitHex /\ [][NextHextile]_vars

\* the Hextile decoder under rectangles whose tiles are all raw
NextHexRaw ==
    \/ AttachHex
    \/ ReadHextileRaw

SpecHexRaw == InitHex /\ [][NextHexRaw]_vars

\* the Hextile decoder under rectangles at the edge of the coordinates
NextHexEdge ==
    \/ AttachHex
    \/ ReadHextileEdge

SpecHexEdge == InitHex /\ [][NextHexEdge]_vars

\* the tiles of the ZRLE decoder under rectangles read with Rectangle.Read
NextZRLE ==
    \/ AttachHex
    \/ ReadZRLETiles

SpecZRLE == InitHex /\ [][NextZRLE]_vars

\* ------------------------------------------------------------- pixel conversion
\* pixel formats a server can announce: the two true-colour formats of the
\* package, the paletted one, and formats with one channel of maximum 0
ZeroMax(pf, ch) == [pf EXCEPT ![ch] = 0]
TrueFormats == {DefaultPixelFormat, NewPixelFormatAten}
ZeroFormats == {ZeroMax(NewPixelFormatAten, ch) : ch \in {"RedMax", "GreenMax", "BlueMax"}}
PixelFormats == TrueFormats \cup ZeroFormats \cup {NewPixelFormat8}

\* channel values of a format: the ends, the middle and two small ones
ChannelValues(max) == {0, 1, 3, max \div 2, max} \cap (0 .. max)
\* the pixel whose channels are cr, cg and cb
Pack(pf, cr, cg, cb) ==
    cr * (2 ^ pf.RedShift) + cg * (2 ^ pf.GreenShift) + cb * (2 ^ pf.BlueShift)
\* palette indexes: inside the map, its last entry, and beyond it
PaletteIndexes == {0, 1, 255, 256, 2 ^ 24}

\* the colour map after SetColorMapEntries messages: entry i is a Color of
\* 16-bit channels
SomeColorMap == [i \in 0 .. 255 |-> [R |-> 257 * i, G |-> 65535 - 257 * i, B |-> 65535]]
ColorMaps == {Nil, SomeColorMap}

\* what one call of PixelToRGBA did; the function has no error result
Converted(pf, cm, ch, pixel, out) ==
    [ran |-> TRUE, tick |-> 1 - last.tick, pf |-> pf, cm |-> cm, ch |-> ch,
     pixel |-> pixel, out |-> out, err |-> NoErr]

\* PixelToRGBA of a pixel packed from channel values under a true-colour format
ConvertTrueColor ==
    /\ dec = Nil
    /\ \E pf \in TrueFormats :
       \E cr \in ChannelValues(pf.RedMax), cg \in ChannelValues(pf.GreenMax),
          cb \in ChannelValues(pf.BlueMax) :
       \E out \in PixelToRGBAFrom(Pack(pf, cr, cg, cb), pf, Nil) :
           last' = Converted(pf, Nil, <<cr, cg, cb>>, Pack(pf, cr, cg, cb), out)
    /\ UNCHANGED <<canvas, encVars, connVars, loopVars, lifeVars, srvVars, dec, snap>>

\* PixelToRGBA, under a format with a channel of maximum 0, of the pixel whose
\* other channels are at their maxima
ConvertZeroMax ==
    /\ dec = Nil
    /\ \E pf \in ZeroFormats :
       \E out \in PixelToRGBAFrom(Pack(pf, pf.RedMax, pf.GreenMax, pf.BlueMax), pf, Nil) :
           last' = Converted(pf, Nil, <<pf.RedMax, pf.GreenMax, pf.BlueMax>>,
                             Pack(pf, pf.RedMax, pf.GreenMax, pf.BlueMax), out)
    /\ UNCHANGED <<canvas, encVars, connVars, loopVars, lifeVars, srvVars, dec, snap>>

\* PixelToRGBA of a palette index under the paletted format
ConvertPaletted ==
    /\ dec = Nil
    /\ \E pixel \in PaletteIndexes, cm \in ColorMaps :
       \E out \in PixelToRGBAFrom(pixel, NewPixelFormat8, cm) :
           last' = Converted(NewPixelFormat8, cm, <<>>, pixel, out)
    /\ UNCHANGED <<canvas, encVars, connVars, loopVars, lifeVars, srvVars, dec, snap>>

\* the pixel converter under the formats and pixels above
NextPixel ==
    \/ ConvertTrueColor
    \/ ConvertZeroMax
    \/ ConvertPaletted

SpecPixel == Init /\ [][NextPixel]_vars

\* ------------------------------------------------------------- resize
\* DesktopSize pseudo-rectangles: smaller than, equal to and wider than the
\* framebuffer of the handshake
SizeGeoms == {Geom(0, 0, 1, 1), Geom(0, 0, CanvasW, CanvasH), Geom(0, 0, WideW, 1)}

ReadDesktopSize ==
    /\ dec = Nil
    /\ \E g \in SizeGeoms : Decode(Wire(g, EncDesktopSize, NoPl), NoInfo)

\* size changes between the attaching of the canvas and Raw rectangles
NextResize ==
    \/ AttachCanvas
    \/ ReadDesktopSize
    \/ ReadRaw

SpecResize == Init /\ [][NextResize]_vars

\* ------------------------------------------------------------- palette
\* Tight palette rectangles: control byte 32 (basic compression, stream 2 of
\* the palette filter), a palette of two or three wire pixels, and index data
\* that inflates to a repeated pattern of four bytes
PalGeoms == {Geom(0, 0, 3, 2), Geom(1, 0, 2, 2), Geom(0, 0, 2, 1)}
PalPatterns(n) ==
    IF n = 2 THEN {<<0, 255, 0, 255>>, <<64, 128, 192, 32>>}
    ELSE {<<0, 1, 2, 1>>, <<2, 2, 0, 1>>}
PalEntries(n) == IF n = 2 THEN WireBlue \o WireRed ELSE WireBlue \o WireRed \o WireGreen
PalPl(n, pat) ==
    [cc |-> 32, lb |-> <<5, 0, 0>>, numColors |-> n - 1, palette |-> PalEntries(n),
     data |-> [id |-> 1, hdr |-> TRUE, full |-> TRUE, px |-> pat]]
PalPls == UNION {{PalPl(n, pat) : pat \in PalPatterns(n)} : n \in {2, 3}}

ReadTightPalette ==
    /\ dec = Nil
    /\ \E g \in PalGeoms, pl \in PalPls :
        Decode(Wire(g, EncTight, pl),
               [NoInfo EXCEPT !.cc = pl.cc, !.id = pl.data.id,
                               !.len = CompactLength(pl.lb).length, !.pl = pl])

\* VncCanvas.DrawPalette called on the canvas with each width of index
DrawPaletteBits == {1, 2, 4, 8}
CallDrawPalette ==
    /\ dec = Nil
    /\ canvas # Nil
    /\ \E bits \in DrawPaletteBits, g \in PalGeoms :
       \E drawn \in {DrawPalette(canvas, Repeat4(<<0, 1, 0, 1>>, g.w * g.h),
                                 PalEntries(2), bits, g)} :
           /\ canvas' = drawn.cv
           /\ last' = [ran |-> TRUE, tick |-> 1 - last.tick, bits |-> bits, rect |-> g,
                       err |-> drawn.err]
    /\ UNCHANGED <<encVars, connVars, loopVars, lifeVars, srvVars, dec, snap>>

NextPalette ==
    \/ AttachWide
    \/ ReadTightPalette
    \/ CallDrawPalette

SpecPalette == InitWide /\ [][NextPalette]_vars

\* ------------------------------------------------------------- snapshot
\* the pixels of the image Image() returned, as its holder sees them
SnapPix == IF snap.own THEN snap.img ELSE canvas.img

\* the holder of the returned image sets one of its pixels, once
SnapColour == <<9, 9, 9, 255>>
WriteSnap ==
    /\ snap # Nil
    /\ snap.writes = 0
    /\ \E p \in DOMAIN snap.img :
           /\ snap' = [snap EXCEPT !.img[p] = SnapColour, !.writes = 1]
           /\ canvas' = IF snap.own THEN canvas ELSE [canvas EXCEPT !.img[p] = SnapColour]
    /\ UNCHANGED <<encVars, connVars, loopVars, lifeVars, srvVars, last, dec>>

\* rectangles that change the canvas by DrawBytes, Fill and Copy: a Raw
\* rectangle, RRE rectangles of no sub-rectangle, a CopyRect rectangle
SnapRects ==
    {Wire(Geom(0, 0, 2, 1), EncRaw, [px |-> RawBytes(Geom(0, 0, 2, 1), <<255, 0, 0, 0>>,
                                                     <<0, 255, 0, 0>>)]),
     Wire(Geom(0, 0, 2, 2), EncRRE, [n |-> 0, bg |-> WireBlue, subs |-> <<>>]),
     Wire(Geom(1, 1, 1, 1), EncRRE, [n |-> 0, bg |-> WireRed, subs |-> <<>>]),
     Wire(Geom(0, 1, 2, 1), EncCopyRect, [srcX |-> 0, srcY |-> 0])}

ReadSnapRect ==
    /\ dec = Nil
    /\ \E r \in SnapRects : Decode(r, NoInfo)

\* snapshots between these rectangles
NextSnapshot ==
    \/ AttachCanvas
    \/ ReadSnapRect
    \/ Image
    \/ WriteSnap

SpecSnapshot == Init /\ [][NextSnapshot]_vars

\* ------------------------------------------------------------- cursor size
\* Cursor rectangles of 65536 pixels and more: two rows of 32768, 256 rows of
\* 256, two rows of 32769, 16 rows of 4096; the bitmap is red and every mask
\* bit is set
WideCursorGeoms ==
    {Geom(3, 1, 32768, 2), Geom(0, 0, 256, 256), Geom(1, 0, 32769, 2), Geom(2, 2, 4096, 16)}
WideCursorPl(g) ==
    [bitmap |-> Repeat4(<<0, 0, 255, 0>>, U16(g.w * g.h) * BPP),
     mask |-> [i \in 1 .. ((g.w + 7) \div 8) * g.h |-> 255]]

ReadCursorWide ==
    /\ dec = Nil
    /\ \E g \in WideCursorGeoms : Decode(Wire(g, EncCursor, WideCursorPl(g)), NoInfo)

\* Cursor rectangles small and large, and pointer moves
NextCursorSize ==
    \/ AttachCanvas
    \/ ReadCursor
    \/ ReadCursorWide
    \/ ReadPointerPos

SpecCursorSize == Init /\ [][NextCursorSize]_vars

\* ------------------------------------------------------------- frame
\* rectangles inside the canvas, across its border, and at the far edge of the
\* 16-bit coordinates, where x + w or y + h is above 65535
FrameGeoms ==
    {Geom(1, 0, 1, 1), Geom(0, 1, 2, 1), Geom(1, 1, 5, 5),
     Geom(65535, 0, 2, 1), Geom(0, 65535, 1, 2), Geom(65534, 1, 3, 1)}
FrameRects ==
    {Wire(g, EncRRE, [n |-> 0, bg |-> bg, subs |-> <<>>]) :
        g \in FrameGeoms, bg \in {WireBlue, WireRed}}
      \cup {Wire(g, EncRaw, [px |-> RawBytes(g, <<255, 0, 0, 0>>, <<0, 255, 0, 0>>)]) :
              g \in FrameGeoms}

\* Rectangle.Read of an RRE rectangle of no sub-rectangle (Fill) or of a Raw
\* rectangle (DrawBytes)
ReadFrameRect ==
    /\ dec = Nil
    /\ \E r \in FrameRects : Decode(r, NoInfo)

NextFrame ==
    \/ AttachCanvas
    \/ ReadFrameRect

SpecFrame == Init /\ [][NextFrame]_vars

\* ------------------------------------------------------------- canvas or none
\* Rectangle.Read of a whole RRE or CoRRE rectangle
ReadRREWhole ==
    /\ dec = Nil
    /\ \E g \in Geoms, pl \in RREPls, tag \in {EncRRE, EncCoRRE} :
        Decode(Wire(g, tag, pl), [NoInfo EXCEPT !.pl = pl])

\* Raw, RRE and CoRRE rectangles with the canvas attached and without it
NextAttached ==
    \/ AttachCanvas
    \/ ReadRaw
    \/ ReadRREWhole

SpecAttached == Init /\ [][NextAttached]_vars

\* ------------------------------------------------------------- shutdown
restVars == <<canvas, encVars, connVars, pc, msg, msgsRead, delivered, fbu, drvVars>>
At(p, where) == procs[p].pc = where
Goto(p, where) == procs' = [procs EXCEPT ![p].pc = where]

\* where a goroutine goes on when its Close call has returned: a message
\* goroutine to its deferred wg.Done(), an application goroutine to its next
\* call
AfterClose(p) == IF p \in Goroutines THEN "done" ELSE "idle"

\* ClientConn.Close, the part under c.mu: a second caller finds closed set and
\* returns nil, the first sets it
CloseEnter_Unguarded(p) ==
    /\ closed' = TRUE
    /\ procs' = [procs EXCEPT ![p].pc = "quit", ![p].first = TRUE]
CloseEnter(p) ==
    IF closed
    THEN /\ procs' = [procs EXCEPT ![p].pc = AfterClose(p), ![p].ret = "nil"]
         /\ UNCHANGED closed
    ELSE /\ closed' = TRUE
         /\ procs' = [procs EXCEPT ![p].pc = "quit", ![p].first = TRUE]

\* ClientConn.Close step by step, for the goroutine p that has called it
CloseLocked(p) ==
    /\ At(p, "close")
    /\ CloseEnter(p)
    /\ UNCHANGED <<quitClosed, connClosed, wg, bw, sent, restVars, srvVars>>

\* close(c.quit)
CloseQuit(p) ==
    /\ At(p, "quit")
    /\ quitClosed' = quitClosed + 1
    /\ Goto(p, "conn")
    /\ UNCHANGED <<closed, connClosed, wg, bw, sent, restVars, srvVars>>

\* err := c.c.Close()
CloseConn(p) ==
    /\ At(p, "conn")
    /\ connClosed' = connClosed + 1
    /\ Goto(p, "wait")
    /\ UNCHANGED <<closed, quitClosed, wg, bw, sent, restVars, srvVars>>

\* c.wg.Wait() and return err: the first Close of a net.Conn returns nil
CloseWait(p) ==
    /\ At(p, "wait")
    /\ wg = 0
    /\ procs' = [procs EXCEPT ![p].pc = AfterClose(p), ![p].ret = "nil"]
    /\ UNCHANGED <<closed, quitClosed, connClosed, wg, bw, sent, restVars, srvVars>>

\* the application calls Close
AppClose(p) ==
    /\ p \in Apps
    /\ At(p, "idle")
    /\ procs[p].calls < MaxCalls
    /\ procs' = [procs EXCEPT ![p] = [pc |-> "close", calls |-> @.calls + 1,
                                      first |-> FALSE, ret |-> "none"]]
    /\ UNCHANGED <<closed, quitClosed, connClosed, wg, bw, sent, restVars, srvVars>>

\* ClientConn.Wait: the call, and the return of c.wg.Wait()
WaitCall ==
    /\ At("waiter", "idle")
    /\ Goto("waiter", "waiting")
    /\ UNCHANGED <<closed, quitClosed, connClosed, wg, bw, sent, restVars, srvVars>>

WaitReturn ==
    /\ At("waiter", "waiting")
    /\ wg = 0
    /\ Goto("waiter", "returned")
    /\ UNCHANGED <<closed, quitClosed, connClosed, wg, bw, sent, restVars, srvVars>>

\* c.bw.Write of one buffer: bufio.Writer refuses it once a flush has failed;
\* the writes are far smaller than the 4096 bytes the buffer holds
BufWrite(b, what) == IF b.err THEN b ELSE [b EXCEPT !.buf = Append(@, what)]

\* DefaultClientMessageHandler.Handle: wg.Add(2) and the two go statements
HandleStart ==
    /\ At("handle", "idle")
    /\ wg' = wg + 2
    /\ procs' = [procs EXCEPT !["handle"].pc = "setenc", !["in"].pc = "loop",
                              !["out"].pc = "select"]
    /\ UNCHANGED <<closed, quitClosed, connClosed, bw, sent, restVars, srvVars>>

\* the four writes of SetEncodings.Write, one at a time; a failed one makes
\* Handle return the error
SetEncodingsParts == <<"SetEncodings.type", "SetEncodings.pad", "SetEncodings.count",
                       "SetEncodings.list">>
HandleSetEncodings ==
    /\ At("handle", "setenc")
    /\ bw' = BufWrite(bw, SetEncodingsParts[procs["handle"].calls + 1])
    /\ procs' = [procs EXCEPT !["handle"] =
                    IF bw.err THEN [@ EXCEPT !.pc = "returned", !.ret = "error"]
                    ELSE IF @.calls + 1 = Len(SetEncodingsParts)
                         THEN [@ EXCEPT !.pc = "request", !.calls = 0]
                         ELSE [@ EXCEPT !.calls = @ + 1]]
    /\ UNCHANGED <<closed, quitClosed, connClosed, wg, sent, restVars, srvVars>>

\* req.Write(clientConn), one write, and the return of its error
HandleRequest ==
    /\ At("handle", "request")
    /\ bw' = BufWrite(bw, "FramebufferUpdateRequest")
    /\ procs' = [procs EXCEPT !["handle"].pc = "returned",
                              !["handle"].ret = IF bw.err THEN "error" ELSE "nil"]
    /\ UNCHANGED <<closed, quitClosed, connClosed, wg, sent, restVars, srvVars>>

\* handleIncomingMessages leaves its loop: the quit channel is closed, or the
\* read of the message type fails, or the type is unknown, or msg.Read fails.
\* The deferred c.Close() runs first.
IncomingStops(own) ==
    /\ At("in", "loop")
    /\ own \/ quitClosed > 0
    /\ Goto("in", "close")
    /\ UNCHANGED <<closed, quitClosed, connClosed, wg, bw, sent, restVars, srvVars>>

\* handleOutgoingMessages: a message from ClientMessageCh and msg.Write(c); on
\* an error c.Close() and return
OutgoingWrite(ok) ==
    /\ At("out", "select")
    /\ procs["out"].calls < MaxSends
    /\ bw' = IF ok THEN BufWrite(bw, "ClientMessage") ELSE bw
    /\ procs' = [procs EXCEPT !["out"].calls = @ + 1,
                              !["out"].pc = IF ok /\ ~bw.err THEN "flush" ELSE "close"]
    /\ UNCHANGED <<closed, quitClosed, connClosed, wg, sent, restVars, srvVars>>

\* c.Flush(): the buffer goes to the connection, or the write fails, as it
\* does on a closed connection, and the loop returns
OutgoingFlush(ok) ==
    /\ At("out", "flush")
    /\ IF ok /\ connClosed = 0 /\ ~bw.err
       THEN /\ sent' = sent \o bw.buf
            /\ bw' = [bw EXCEPT !.buf = <<>>]
            /\ Goto("out", "select")
       ELSE /\ bw' = [bw EXCEPT !.err = TRUE]
            /\ Goto("out", "done")
            /\ UNCHANGED sent
    /\ UNCHANGED <<closed, quitClosed, connClosed, wg, restVars, srvVars>>

\* the loop returns: ClientMessageCh is closed, or the quit channel is
OutgoingStops(chClosed) ==
    /\ At("out", "select")
    /\ chClosed \/ quitClosed > 0
    /\ Goto("out", "done")
    /\ UNCHANGED <<closed, quitClosed, connClosed, wg, bw, sent, restVars, srvVars>>

\* the deferred c.wg.Done() of a message goroutine
Done(p) ==
    /\ p \in Goroutines
    /\ At(p, "done")
    /\ wg' = wg - 1
    /\ Goto(p, "exited")
    /\ UNCHANGED <<closed, quitClosed, connClosed, bw, sent, restVars, srvVars>>

\* the steps the Go scheduler takes for a goroutine that can run
CloseStep(p) == CloseLocked(p) \/ CloseQuit(p) \/ CloseConn(p) \/ CloseWait(p) \/ Done(p)

\* the client connection from the message handler to the end of both loops
NextShutdown ==
    \/ HandleStart
    \/ HandleSetEncodings
    \/ HandleRequest
    \/ \E p \in Apps : AppClose(p)
    \/ \E p \in Goroutines \cup Apps : CloseLocked(p)
    \/ \E p \in Goroutines \cup Apps : CloseQuit(p)
    \/ \E p \in Goroutines \cup Apps : CloseConn(p)
    \/ \E p \in Goroutines \cup Apps : CloseWait(p)
    \/ \E p \in Goroutines : Done(p)
    \/ \E own \in BOOLEAN : IncomingStops(own)
    \/ \E ok \in BOOLEAN : OutgoingWrite(ok)
    \/ \E ok \in BOOLEAN : OutgoingFlush(ok)
    \/ \E chClosed \in BOOLEAN : OutgoingStops(chClosed)
    \/ WaitCall
    \/ WaitReturn

SpecShutdown == Init /\ [][NextShutdown]_vars

\* the same with the scheduling of Go: a goroutine that can take its next step
\* takes it, a select with a closed quit channel and nothing else to take
\* returns, a started message handler runs on.  Whether the application calls
\* Close or Wait, and whether a read or a write fails, is left open.
FairShutdown ==
    /\ \A p \in Goroutines \cup Apps : WF_vars(CloseStep(p))
    /\ WF_vars(WaitReturn)
    /\ WF_vars(HandleSetEncodings \/ HandleRequest)
    /\ WF_vars(IncomingStops(FALSE))
    /\ WF_vars(OutgoingStops(FALSE))
    /\ WF_vars(\E ok \in BOOLEAN : OutgoingFlush(ok))

SpecShutdownFair == SpecShutdown /\ FairShutdown

\* ------------------------------------------------------------- server
cliVars == <<canvas, encVars, connVars, loopVars, drvVars, lifeVars>>

\* Server.Start: Accept returns a connection while the listener is open, and
\* handleConnection starts with NewServerConn and defer serverConn.Close()
Accept(c) ==
    /\ ~srvQuit
    /\ conns[c].pc = "none"
    /\ conns' = [conns EXCEPT ![c].pc = "handshake"]
    /\ UNCHANGED <<srvQuit, cliVars>>

\* the loop over s.config.Handlers: every handler returns nil, or one fails,
\* as it does when the client has gone, and handleConnection returns
Handshake(c, ok) ==
    /\ conns[c].pc = "handshake"
    /\ conns' = [conns EXCEPT ![c] =
                    IF ok /\ ~conns[c].peerClosed
                    THEN [@ EXCEPT !.pc = "wait", !.shook = TRUE]
                    ELSE [@ EXCEPT !.pc = "close"]]
    /\ UNCHANGED <<srvQuit, cliVars>>

\* serverConn.Wait(): sc.wg.Wait() returns when the counter is zero
ServerConnWait(c) ==
    /\ conns[c].pc = "wait"
    /\ conns[c].wg = 0
    /\ conns' = [conns EXCEPT ![c].pc = "close"]
    /\ UNCHANGED <<srvQuit, cliVars>>

\* the deferred serverConn.Close()
ServerConnClose(c) ==
    /\ conns[c].pc = "close"
    /\ conns' = [conns EXCEPT ![c] =
                    IF @.closed THEN [@ EXCEPT !.pc = "returned"]
                    ELSE [@ EXCEPT !.pc = "returned", !.closed = TRUE, !.closes = @ + 1]]
    /\ UNCHANGED <<srvQuit, cliVars>>

\* Server.Stop: close(s.config.quit) and s.listener.Close()
Stop ==
    /\ ~srvQuit
    /\ srvQuit' = TRUE
    /\ UNCHANGED <<conns, cliVars>>

\* the client closes its end of an accepted connection
PeerCloses(c) ==
    /\ conns[c].pc # "none"
    /\ ~conns[c].peerClosed
    /\ conns' = [conns EXCEPT ![c].peerClosed = TRUE]
    /\ UNCHANGED <<srvQuit, cliVars>>

NextServer ==
    \/ \E c \in Conns : Accept(c)
    \/ \E c \in Conns, ok \in BOOLEAN : Handshake(c, ok)
    \/ \E c \in Conns : ServerConnWait(c)
    \/ \E c \in Conns : ServerConnClose(c)
    \/ Stop
    \/ \E c \in Conns : PeerCloses(c)

SpecServer == Init /\ [][NextServer]_vars

\* ------------------------------------------------------------- properties
\* the rectangles of an update that the dispatcher is to reach: those within
\* the header count
Reached(k) == k <= fbu.numRects /\ k <= Len(fbu.wire)
\* the update header was read
UpdateRead == fbu.ran /\ fbu.n >= 3
\* the tags of the first k rectangles on the wire
TagsUpTo(wire, k) == [j \in 1 .. k |-> wire[j].tag]

\* C1: an update of header count N whose K ordinary rectangles are followed by
\* a LastRect rectangle ends without error, with exactly the K rectangles
\* decoded and the LastRect header the last one read.
C1_LastRectStops ==
    UpdateRead =>
        \A k \in 1 .. Len(fbu.wire) :
            (/\ Reached(k)
             /\ fbu.wire[k].tag = EncLastRect
             /\ \A j \in 1 .. (k - 1) : fbu.wire[j].tag \in Encodings)
            => /\ fbu.err = NoErr
               /\ fbu.decoded = TagsUpTo(fbu.wire, k - 1)
               /\ fbu.attempted = k

C3_HeaderBytes ==
    UpdateRead => fbu.hdr = 12 * fbu.attempted

\* C4: an update whose rectangles all have decoders and decode without error
\* has them decoded in wire order, and leaves the canvas that decoding them one
\* after the other leaves.
RECURSIVE Sequentially(_, _, _)
Sequentially(s, wire, k) ==
    IF k > Len(wire) \/ s.err # NoErr THEN s
    ELSE Sequentially(EncRead([typ |-> wire[k].tag], s, wire[k], wire[k].pl), wire, k + 1)

C4_WireOrder ==
    [][(/\ pc = "body"
        /\ fbu'.ran /\ fbu'.n >= 3 /\ fbu'.seq = msgsRead /\ ~fbu'.sent
        /\ fbu'.numRects = Len(fbu'.wire)
        /\ \A k \in 1 .. Len(fbu'.wire) : fbu'.wire[k].tag \in Encodings)
       => /\ fbu'.decoded = TagsUpTo(fbu'.wire, Len(fbu'.wire))
          /\ canvas' = Sequentially(Sess, fbu'.wire, 1).canvas]_vars

\* C5: a snapshot of Image() taken while a rectangle is being decoded shows
\* nothing of that rectangle.
C5_NoPartialSnapshot ==
    (snap # Nil /\ snap.mid) => snap.img = snap.before

C7_CursorComposited ==
    (/\ UpdateRead
     /\ canvas # Nil
     /\ fbu.numRects = 2
     /\ Len(fbu.wire) = 2
     /\ fbu.wire[1].tag = EncCursor
     /\ fbu.wire[2].tag = EncPointerPos)
    => /\ fbu.err = NoErr
       /\ fbu.sent =>
            /\ canvas.cursorShown
            /\ CursorOrigin(canvas) = <<fbu.wire[2].x - fbu.wire[1].x,
                                        fbu.wire[2].y - fbu.wire[1].y>>

\* the step is a whole call of Rectangle.Read on a rectangle of this tag
Step(tag) == last'.tick # last.tick /\ last'.tag = tag

\* C8: a Zlib rectangle that carries data is inflated by the context the
\* rectangle before it left, and so is a ZRLE rectangle.
C8_ZlibStreamPersists ==
    [][/\ (Step(EncZlib) /\ last'.len > 0 /\ zlibEnc # Nil)
            => zlibEnc'.hist = Append(zlibEnc.hist, last'.id)
       /\ (Step(EncZRLE) /\ last'.len > 0 /\ zrleEnc # Nil)
            => zrleEnc'.hist = Append(zrleEnc.hist, last'.id)]_vars

\* the stream a basic-compression control byte names
TightStream(cc) == (cc \div 16) % 4
\* the rectangle of this control byte and data length inflates data
TightInflates(cc, len) ==
    /\ cc < 128
    /\ \/ (cc \div 16) % 8 \in {0, 1} /\ len > 0
       \/ (cc \div 16) % 8 = 2

\* C9: a Tight rectangle that inflates data on stream s without reset bit s
\* continues the state stream s had; a stream it neither uses nor resets keeps
\* its state; a stream whose reset bit is set and that is not used is cleared.
C9_TightStreamPersists ==
    [][Step(EncTight) =>
        \A s \in 0 .. 3 :
            LET cc == last'.cc
                used == TightInflates(cc, last'.len) /\ TightStream(cc) = s
            IN  /\ (used /\ Bit(cc, s) = 0 /\ tightEnc[s] # Nil)
                    => tightEnc'[s].hist = Append(tightEnc[s].hist, last'.id)
                /\ (~used /\ Bit(cc, s) = 0) => tightEnc'[s] = tightEnc[s]
                /\ (~used /\ Bit(cc, s) = 1) => tightEnc'[s] = Nil]_vars

CPixelBytes == IF BPP = 32 /\ DefaultPixelFormat.Depth <= 24 THEN 3 ELSE BPP \div 8
\* the bytes of a pixel under the session's format
PixelSize == BPP \div 8
\* the colour of the pixel that starts the wire bytes
ColourOf(bytes) == PixelToRGBA(ReadPixel(bytes, DefaultPixelFormat), DefaultPixelFormat)
\* the last call of Rectangle.Read was on this tag
Was(tag) == last.ran /\ last.tag = tag

\* C11: a Tight fill rectangle takes the control byte and one compact pixel,
\* and leaves every canvas pixel of the rectangle with that pixel's colour.
C11_FillConsumesCPixel ==
    (Was(EncTight) /\ last.cc \div 16 = 8) =>
        /\ last.err = NoErr
        /\ last.n = 12 + 1 + CPixelBytes
        /\ canvas # Nil =>
              \A p \in Pts(canvas) :
                  InRect(p, RectOf(last.rect)) => canvas.img[p] = ColourOf(WireRed)

\* the uncompressed size the decoder computes for the data of a
\* basic-compression rectangle: pixels for Copy, packed indices for Palette
BasicSize(cc, rect, numColors) ==
    IF (cc \div 16) % 8 = 2
    THEN (IF numColors + 1 <= 2 THEN (rect.w + 7) \div 8 ELSE rect.w) * rect.h
    ELSE rect.w * BPP * rect.h
\* the bytes a basic-compression rectangle takes before its data
BasicPrefix(cc, numColors) ==
    12 + 1 + (IF (cc \div 16) % 8 = 2 THEN 1 + (numColors + 1) * BPP ELSE 0)

\* C12: the data of a Tight Copy or Palette rectangle whose uncompressed size
\* is under 12 bytes is taken raw, that many bytes, with no length prefix and
\* no stream touched; from 12 bytes on it is a compact length L, L bytes, and
\* an inflation through the selected stream.
C12_SmallDataIsRaw ==
    [][(Step(EncTight) /\ last'.cc < 128 /\ (last'.cc \div 16) % 8 \in {0, 1, 2}) =>
          LET cc == last'.cc
              size == BasicSize(cc, last'.rect, TightNumColors)
              taken == last'.n - BasicPrefix(cc, TightNumColors)
          IN  IF size < 12
              THEN /\ taken = size
                   /\ tightEnc' = TightResetStreams(tightEnc, cc)
              ELSE /\ taken = 1 + last'.len
                   /\ \A i \in 0 .. 3 :
                          i # (cc \div 16) % 4 =>
                              tightEnc'[i] = TightResetStreams(tightEnc, cc)[i]]_vars

\* C13: in basic compression the upper nibble of the control byte selects the
\* filter: nibble 0 is Copy with no further byte before its data, nibble 1
\* takes a filter-id byte before whatever the named filter reads, and every
\* other nibble is a decode error.
C13_FilterByNibble ==
    (Was(EncTight) /\ last.cc < 128) =>
        LET nibble == last.cc \div 16
        IN  /\ (nibble = 0 /\ last.err = NoErr) => last.n = 12 + 1 + 1 + last.len
            /\ (nibble = 1 /\ last.err = NoErr) => last.n >= 12 + 1 + 1 + 1
            /\ nibble \notin {0, 1} => last.err # NoErr

\* the length the first `used` bytes of a length field spell
SpeltLength(lb, used) ==
    BitAnd(lb[1], 127) + (IF used >= 2 THEN BitAnd(lb[2], 127) * 2 ^ 7 ELSE 0)
        + (IF used >= 3 THEN lb[3] * 2 ^ 14 ELSE 0)

\* C14: the compact-length reader takes 1 byte if bit 7 of the first is clear,
\* 2 if bit 7 of the second is clear, else 3; it returns the low 7 bits of the
\* first two and all 8 of the third, then takes that many data bytes; the
\* Tight and TightPNG readers give the same result on every stream.
C14_CompactLength ==
    (last.ran /\ "lb" \in DOMAIN last) =>
        /\ last.tight = last.png
        /\ last.tight.ok =>
              /\ last.tight.used = (IF last.lb[1] < 128 THEN 1
                                    ELSE IF last.lb[2] < 128 THEN 2 ELSE 3)
              /\ last.tight.length = SpeltLength(last.lb, last.tight.used)
              /\ last.tight.n = last.tight.used + last.tight.length
C14_Witness ==
    /\ last.ran /\ "lb" \in DOMAIN last
    /\ last.tight.ok /\ last.tight.used = 3
    /\ last.lb[3] >= 128 /\ last.tight.n > 3

\* C15: a Raw rectangle of size (w, h) takes w*h*(bits-per-pixel/8) bytes
\* after its header, wherever it lies and whatever the canvas bounds.
C15_RawByteCount ==
    Was(EncRaw) => last.n = 12 + last.rect.w * last.rect.h * PixelSize

\* the k-th pixel of the wire data, k from 0
WirePixel(px, k) == [i \in 1 .. PixelSize |-> px[k * PixelSize + i]]

\* C16: after a Raw rectangle (x, y, w, h), canvas pixel (x+i, y+j) of the
\* rectangle is the RGBA conversion, under the session's pixel format, of
\* input pixel j*w+i.
C16_RawPixelsConverted ==
    (Was(EncRaw) /\ canvas # Nil) =>
        \A i \in 0 .. last.rect.w - 1, j \in 0 .. last.rect.h - 1 :
            <<last.rect.x + i, last.rect.y + j>> \in Pts(canvas) =>
                canvas.img[<<last.rect.x + i, last.rect.y + j>>]
                    = ColourOf(WirePixel(last.pl.px, j * last.rect.w + i))

\* C17: a CopyRect rectangle takes 4 bytes after its header; afterwards each
\* destination pixel (x+i, y+j) holds what source pixel (src_x+i, src_y+j)
\* held before the copy, overlapping or not, and the pixels outside the
\* destination rectangle are as before.
C17_CopyRectPreImage ==
    [][Step(EncCopyRect) =>
          /\ last'.n = 12 + 4
          /\ canvas # Nil =>
                LET r == last'.rect
                    src == last'.src
                IN  /\ \A i \in 0 .. r.w - 1, j \in 0 .. r.h - 1 :
                           (<<r.x + i, r.y + j>> \in Pts(canvas)
                               /\ <<src[1] + i, src[2] + j>> \in Pts(canvas)) =>
                               canvas'.img[<<r.x + i, r.y + j>>]
                                   = canvas.img[<<src[1] + i, src[2] + j>>]
                    /\ \A p \in Pts(canvas) :
                           ~InRect(p, ImageRect(r.x, r.y, r.x + r.w, r.y + r.h)) =>
                               canvas'.img[p] = canvas.img[p]]_vars
\* an overlapping copy to the right has left two colours in its destination
C17_Witness ==
    /\ Was(EncCopyRect) /\ canvas # Nil
    /\ last.rect = Geom(1, 0, 2, 1) /\ last.src = <<0, 0>>
    /\ canvas.img[<<1, 0>>] # canvas.img[<<2, 0>>]
    /\ canvas.img[<<1, 0>>] # Zero /\ canvas.img[<<2, 0>>] # Zero

\* the sub-records of an RRE payload that cover pixel p of parent rectangle r
Covering(p, r, pl) ==
    {k \in 1 .. pl.n :
        InRect(p, ImageRect(r.x + pl.subs[k].x, r.y + pl.subs[k].y,
                            r.x + pl.subs[k].x + pl.subs[k].w,
                            r.y + pl.subs[k].y + pl.subs[k].h))}
\* the last of a non-empty set of indices
Last(ks) == CHOOSE k \in ks : \A j \in ks : j <= k

\* C18: after an RRE rectangle is decoded onto a canvas, each pixel of the
\* parent rectangle that no sub-rectangle covers has the background colour and
\* each covered pixel has the colour of the last sub-record covering it, the
\* sub-rectangles placed relative to the parent's origin.
C18_RREColours ==
    [][(Step(EncRRE) /\ canvas # Nil /\ (dec # Nil => dec.before # Nil)) =>
          LET r == last'.rect
              pl == last'.pl
          IN  /\ last'.err = NoErr
              /\ \A p \in Pts(canvas) :
                     InRect(p, ImageRect(r.x, r.y, r.x + r.w, r.y + r.h)) =>
                         canvas'.img[p] =
                             IF Covering(p, r, pl) = {} THEN ColourOf(pl.bg)
                             ELSE ColourOf(pl.subs[Last(Covering(p, r, pl))].color)]_vars

\* C19: with p the bytes of a pixel, an RRE rectangle of N sub-rectangles
\* takes 4 + p + N*(p + 8) bytes after its header.
C19_RREByteCount ==
    Was(EncRRE) => last.n = 12 + 4 + PixelSize + last.pl.n * (PixelSize + 8)

\* the tiles before tile k of a Hextile payload that are not raw and whose
\* mask has bit b, and the colour the most recent of them gave
Givers(tiles, k, b) ==
    {j \in 1 .. k - 1 : Bit(tiles[j].mask, 0) = 0 /\ Bit(tiles[j].mask, b) # 0}
CarriedBg(tiles, k) ==
    IF Givers(tiles, k, 1) = {} THEN NilSlice ELSE tiles[Last(Givers(tiles, k, 1))].bg
CarriedFg(tiles, k) ==
    IF Givers(tiles, k, 2) = {} THEN NilSlice ELSE tiles[Last(Givers(tiles, k, 2))].fg
\* tile k of a rectangle of one row of tiles, and the pixels of the tile that
\* its sub-rectangles cover
TileRect(r, k) ==
    ImageRect(r.x + 16 * (k - 1), r.y, Min(r.x + 16 * k, r.x + r.w), r.y + r.h)
SubRect(r, k, sub) ==
    ImageRect(r.x + 16 * (k - 1) + (sub.g[1] \div 16), r.y + (sub.g[1] % 16),
              r.x + 16 * (k - 1) + (sub.g[1] \div 16) + (sub.g[2] \div 16) + 1,
              r.y + (sub.g[1] % 16) + (sub.g[2] % 16) + 1)
InSubs(p, r, k, t) ==
    Bit(t.mask, 3) # 0 /\ \E i \in 1 .. Len(t.subs) : InRect(p, SubRect(r, k, t.subs[i]))

\* C20: in a Hextile rectangle a tile that is not raw and gives no background
\* is filled with the background of the most recent earlier tile that gave
\* one, and a sub-rectangle of a tile that gives neither sub-rectangle
\* colours nor a foreground has the foreground of the most recent earlier tile
\* that gave one; raw tiles in between change neither.
C20_HextileCarries ==
    [][(Step(EncHextile) /\ canvas # Nil) =>
          LET r == last'.rect
              tiles == last'.pl.tiles
          IN  \A k \in 1 .. Len(tiles), p \in Pts(canvas) :
                  (InRect(p, TileRect(r, k)) /\ Bit(tiles[k].mask, 0) = 0) =>
                      /\ (/\ Bit(tiles[k].mask, 1) = 0
                          /\ CarriedBg(tiles, k) # NilSlice
                          /\ ~InSubs(p, r, k, tiles[k])) =>
                             canvas'.img[p] = ColourOf(CarriedBg(tiles, k))
                      /\ (/\ Bit(tiles[k].mask, 4) = 0 /\ Bit(tiles[k].mask, 2) = 0
                          /\ CarriedFg(tiles, k) # NilSlice
                          /\ InSubs(p, r, k, tiles[k])) =>
                             canvas'.img[p] = ColourOf(CarriedFg(tiles, k))]_vars
\* both colours given, a raw tile, then a tile that gives nothing and has a
\* sub-rectangle: the sub-rectangle and the rest of the tile are painted
C20_Witness ==
    /\ Was(EncHextile) /\ canvas # Nil /\ last.err = NoErr
    /\ last.pl.tiles = <<HexGiven, HexRaw, HexCarriedSub>>
    /\ canvas.img[<<32, 0>>] = ColourOf(WireRed)
    /\ canvas.img[<<33, 0>>] = ColourOf(WireBlue)

\* tile k of a Hextile payload uses a colour no tile has given so far: it is
\* not raw and has no background of its own nor a carried one, or it has
\* sub-rectangles without colours of their own and no foreground, own or
\* carried
NeedsUndefined(tiles, k) ==
    /\ Bit(tiles[k].mask, 0) = 0
    /\ \/ Bit(tiles[k].mask, 1) = 0 /\ Givers(tiles, k, 1) = {}
       \/ /\ Bit(tiles[k].mask, 3) # 0 /\ Len(tiles[k].subs) > 0
          /\ Bit(tiles[k].mask, 4) = 0 /\ Bit(tiles[k].mask, 2) = 0
          /\ Givers(tiles, k, 2) = {}

\* C21: a Hextile rectangle with a tile that needs a background or a
\* foreground that no tile of the rectangle has given ends in an error.
C21_UndefinedColourIsError ==
    (Was(EncHextile) /\ \E k \in 1 .. Len(last.pl.tiles) : NeedsUndefined(last.pl.tiles, k)) =>
        last.err # NoErr

\* the bytes of a Raw rectangle r that carries the pixels of the raw tiles of
\* a Hextile rectangle of the same size: pixel (x, y) of the rectangle is the
\* pixel of its tile at the same place, the pixels at 4-byte spacing
RawOfTiles(r, tiles) ==
    LET cols == (r.w + 15) \div 16
        pixel(k) ==
            LET x == k % r.w
                y == k \div r.w
                tileW == Min(16, r.w - 16 * (x \div 16))
            IN  [tile |-> (y \div 16) * cols + (x \div 16) + 1,
                 at |-> (y % 16) * tileW + (x % 16)]
    IN  [i \in 1 .. r.w * r.h * BPP |->
            IF i > r.w * r.h * 4 THEN 0
            ELSE tiles[pixel((i - 1) \div 4).tile].px[
                     4 * pixel((i - 1) \div 4).at + ((i - 1) % 4) + 1]]
AllRaw(tiles) == \A k \in 1 .. Len(tiles) : Bit(tiles[k].mask, 0) # 0

\* C22: a Hextile rectangle whose tiles are all raw leaves the canvas as a Raw
\* rectangle of the same size with the same pixels leaves it, and takes the
\* bytes that Raw rectangle takes and one mask byte for each tile.
C22_AllRawIsRaw ==
    [][(Step(EncHextile) /\ AllRaw(last'.pl.tiles)) =>
          LET raw == RawEncodingRead(Sess, last'.rect,
                                     [px |-> RawOfTiles(last'.rect, last'.pl.tiles)])
          IN  /\ last'.err = NoErr
              /\ canvas' = raw.canvas
              /\ last'.n - 12 = raw.n + Len(last'.pl.tiles)]_vars
\* three raw tiles have put two colours on the canvas
C22_Witness ==
    /\ Was(EncHextile) /\ AllRaw(last.pl.tiles) /\ canvas # Nil
    /\ canvas.img[<<0, 0>>] = <<255, 0, 0, 0>>
    /\ canvas.img[<<17, 0>>] = <<0, 255, 0, 0>>
    /\ canvas.img[<<32, 0>>] = <<0, 255, 0, 0>>

\* the last call was on a ZRLE rectangle whose block got as far as the tiles
ZTiles == Was(EncZRLE) /\ "data" \in DOMAIN last.pl /\ last.len > 0
\* the first sub-encoding byte of the inflated stream
FirstSub(l) == l.pl.data.out[1]
\* ceil(a / b)
CeilDiv(a, b) == (a + b - 1) \div b

\* C23: the ZRLE decoder cuts a rectangle (w, h) into tiles of at most 64x64
\* and reads ceil(w/64)*ceil(h/64) sub-encoding bytes from the inflated
\* stream.
C23_ZRLETileCount ==
    (ZTiles /\ last.err = NoErr) =>
        last.z.subs = CeilDiv(last.rect.w, 64) * CeilDiv(last.rect.h, 64)

\* C24: a ZRLE tile whose sub-encoding byte is in 17..127 or is 129 ends the
\* rectangle in an error, and the canvas is not written.
C24_ReservedSubencoding ==
    [][(Step(EncZRLE) /\ "data" \in DOMAIN last'.pl /\ last'.len > 0
            /\ FirstSub(last') \in (17 .. 127) \cup {129}) =>
          (last'.err # NoErr /\ canvas' = canvas)]_vars

\* the colour of a 3-byte compact pixel
CPixelColour(b) ==
    PixelToRGBA(b[1] + 256 * b[2] + 65536 * b[3], DefaultPixelFormat)

\* C25: a ZRLE rectangle of solid tiles is decoded without error, each tile's
\* canvas pixels get the colour of the tile's compact pixel, and one
\* sub-encoding byte and one compact pixel per tile are read from the
\* inflated stream.
C25_SolidTiles ==
    [][(Step(EncZRLE) /\ "data" \in DOMAIN last'.pl /\ last'.len > 0
            /\ FirstSub(last') = 1 /\ canvas # Nil) =>
          /\ last'.err = NoErr
          /\ last'.z.subs = 1 /\ last'.z.pos = 1 + CPixelBytes
          /\ \A p \in Pts(canvas) :
                 InRect(p, RectOf(last'.rect)) => canvas'.img[p] = CPixelColour(GreenCPixel)]_vars

\* the last step was a pixel conversion
WasConverted == last.ran /\ "out" \in DOMAIN last
\* round(c * 255 / max), to the nearest integer
Rounded(c, max) == (2 * c * 255 + max) \div (2 * max)
NonZeroMax(pf) == pf.RedMax # 0 /\ pf.GreenMax # 0 /\ pf.BlueMax # 0

\* C26: under a true-colour format, the pixel packed from channel values
\* c_r, c_g, c_b in [0, max] converts to (round(c_r*255/redMax),
\* round(c_g*255/greenMax), round(c_b*255/blueMax), 255), rounded to nearest.
C26_RoundToNearest ==
    (WasConverted /\ last.pf.TrueColor # 0 /\ NonZeroMax(last.pf)) =>
        last.out = RGBA(Rounded(last.ch[1], last.pf.RedMax),
                        Rounded(last.ch[2], last.pf.GreenMax),
                        Rounded(last.ch[3], last.pf.BlueMax), 255)

\* C27: converting a pixel under a true-colour format with a channel maximum
\* of zero is reported as an error.
C27_ZeroMaxIsError ==
    (WasConverted /\ last.pf.TrueColor # 0 /\ ~NonZeroMax(last.pf)) =>
        last.err # NoErr

\* C28: under the paletted format a pixel that is no valid colour-map index
\* (>= 256, or no colour map) converts to opaque black without error; a valid
\* index converts to the colour-map entry with alpha 255.
C28_PalettedLookup ==
    (WasConverted /\ last.pf.TrueColor = 0) =>
        /\ last.err = NoErr
        /\ IF last.cm = Nil \/ last.pixel >= 256
           THEN last.out = RGBA(0, 0, 0, 255)
           ELSE last.out = RGBA(last.cm[last.pixel].R, last.cm[last.pixel].G,
                                last.cm[last.pixel].B, 255)

\* C29: every pixel of the canvas has alpha 255, from its creation on and
\* after every Fill, DrawBytes and Copy of the decoders.
C29_AlphaOpaque ==
    canvas # Nil => \A p \in Pts(canvas) : canvas.img[p][4] = 255

\* the points of an image of w x h pixels
PtsOf(w, h) == (0 .. w - 1) \X (0 .. h - 1)

\* C30: a DesktopSize pseudo-rectangle with header (w, h) takes no byte after
\* its header; afterwards the session's framebuffer size is (w, h) and an
\* attached canvas is w x h pixels, all opaque black; so the size of the canvas
\* always equals the session's framebuffer size.
C30_DesktopSizeResizes ==
    /\ [](canvas # Nil => Pts(canvas) = PtsOf(fbWidth, fbHeight))
    /\ [][Step(EncDesktopSize) =>
              /\ last'.n = 12
              /\ last'.err = NoErr
              /\ fbWidth' = last'.rect.w
              /\ fbHeight' = last'.rect.h
              /\ canvas # Nil =>
                    /\ Pts(canvas') = PtsOf(last'.rect.w, last'.rect.h)
                    /\ \A p \in Pts(canvas') : canvas'.img[p] = <<0, 0, 0, 255>>]_vars

\* the step is Rectangle.Read of a Tight rectangle of the palette filter on an
\* attached canvas
PaletteStep ==
    /\ last'.tick # last.tick
    /\ "cc" \in DOMAIN last'
    /\ last'.tag = EncTight
    /\ (last'.cc \div 16) % 8 = 2
    /\ canvas # Nil
\* the step is a call of DrawPalette with a width of index other than 1 and 8
OtherBitsStep ==
    /\ last'.tick # last.tick
    /\ "bits" \in DOMAIN last'
    /\ last'.bits \notin {1, 8}
\* the index data of a palette rectangle, inflated
IndexData(l) ==
    Repeat4(l.pl.data.px,
            (IF l.pl.numColors + 1 = 2 THEN CeilDiv(l.rect.w, 8) ELSE l.rect.w) * l.rect.h)
\* the palette index of pixel (col, row)
PaletteIndex(l, col, row) ==
    IF l.pl.numColors + 1 = 2
    THEN Bit(IndexData(l)[row * CeilDiv(l.rect.w, 8) + (col \div 8) + 1], 7 - (col % 8))
    ELSE IndexData(l)[row * l.rect.w + col + 1]
\* palette entry k, a pixel on the wire
PaletteEntry(l, k) == [i \in 1 .. PixelSize |-> l.pl.palette[k * BPP + i]]

\* C31: under the Tight palette filter with palette size N, pixel (col, row) of
\* the rectangle receives the RGBA conversion of palette entry k, where for
\* N = 2 k is bit 7 - col mod 8 of index byte row*ceil(w/8) + col div 8 and
\* otherwise k is index byte row*w + col; DrawPalette rejects a width of index
\* other than 1 and 8 with an error and leaves the canvas unchanged.
C31_PaletteExpansion ==
    [][/\ PaletteStep =>
              \A col \in 0 .. last'.rect.w - 1, row \in 0 .. last'.rect.h - 1 :
                  <<last'.rect.x + col, last'.rect.y + row>> \in Pts(canvas) =>
                      canvas'.img[<<last'.rect.x + col, last'.rect.y + row>>]
                          = ColourOf(PaletteEntry(last', PaletteIndex(last', col, row)))
       /\ OtherBitsStep => (last'.err # NoErr /\ canvas' = canvas)]_vars
\* the second half alone
OtherBitsRejected ==
    [][OtherBitsStep => (last'.err # NoErr /\ canvas' = canvas)]_vars

C33_HextileTileCount ==
    (Was(EncHextile) /\ \A k \in DOMAIN last.pl.tiles : last.pl.tiles[k] = HexCarried) =>
        /\ last.err = NoErr
        /\ last.n = 12 + CeilDiv(last.rect.w, 16) * CeilDiv(last.rect.h, 16)

\* C34: a Cursor rectangle of width w and height h takes exactly
\* w*h*(bits per pixel / 8) pixel bytes and then ceil(w/8)*h mask bytes, also
\* when w*h is 65536 or more; bit 7 of a mask byte is the leftmost pixel, a set
\* bit makes the pixel opaque, and the header's (x, y) becomes the hotspot.
C34_CursorBytes ==
    [][Step(EncCursor) =>
          /\ last'.n = 12 + last'.rect.w * last'.rect.h * PixelSize
                          + CeilDiv(last'.rect.w, 8) * last'.rect.h
          /\ canvas # Nil =>
                /\ canvas'.cursorHotX = last'.rect.x
                /\ canvas'.cursorHotY = last'.rect.y
                /\ canvas'.cursorMask.w = last'.rect.w
                /\ canvas'.cursorMask.h = last'.rect.h]_vars
\* the parts about the hotspot and the size of the mask alone
CursorInstalled ==
    [][(Step(EncCursor) /\ canvas # Nil) =>
          /\ canvas'.cursorHotX = last'.rect.x
          /\ canvas'.cursorHotY = last'.rect.y
          /\ canvas'.cursorMask.w = last'.rect.w
          /\ canvas'.cursorMask.h = last'.rect.h]_vars
\* the bytes a Cursor rectangle of fewer than 65536 pixels takes
CursorBytesTaken ==
    [][(Step(EncCursor) /\ last'.rect.w * last'.rect.h < 65536) =>
          last'.n = 12 + last'.rect.w * last'.rect.h * BPP
                          + CeilDiv(last'.rect.w, 8) * last'.rect.h]_vars

\* C35: for a rectangle header of 16-bit x, y, w, h, Fill and DrawBytes change
\* only canvas pixels inside [x, x+w) x [y, y+h), also when x+w or y+h is
\* above 65535.
C35_FrameOfFill ==
    [][((Step(EncRRE) \/ Step(EncRaw)) /\ canvas # Nil) =>
          \A p \in Pts(canvas) :
              ~InRect(p, [x0 |-> last'.rect.x, y0 |-> last'.rect.y,
                          x1 |-> last'.rect.x + last'.rect.w,
                          y1 |-> last'.rect.y + last'.rect.h]) =>
                  canvas'.img[p] = canvas.img[p]]_vars
\* the same for the rectangles whose x+w and y+h are 16-bit values
FrameAwayFromEdge ==
    [][((Step(EncRRE) \/ Step(EncRaw)) /\ canvas # Nil
            /\ last'.rect.x + last'.rect.w < 65536 /\ last'.rect.y + last'.rect.h < 65536) =>
          \A p \in Pts(canvas) :
              ~InRect(p, [x0 |-> last'.rect.x, y0 |-> last'.rect.y,
                          x1 |-> last'.rect.x + last'.rect.w,
                          y1 |-> last'.rect.y + last'.rect.h]) =>
                  canvas'.img[p] = canvas.img[p]]_vars

\* the bytes Rectangle.Read takes for the rectangle of the last step on the
\* session as it was, with no canvas attached
TakenWithoutCanvas ==
    RectangleRead([Sess EXCEPT !.canvas = Nil],
                  Wire(last'.rect, last'.tag, last'.pl)).n

\* C36: the bytes a decoder takes for a rectangle are the same with a canvas
\* attached and without one; CoRRE without a canvas still reads its background
\* pixel and all N sub-records.
C36_CanvasIndependent ==
    [][(last'.tick # last.tick /\ last'.tag \in {EncRaw, EncRRE, EncCoRRE}) =>
          /\ last'.n = TakenWithoutCanvas
          /\ (last'.tag = EncCoRRE /\ canvas = Nil) =>
                last'.n = 12 + 4 + PixelSize + last'.pl.n * (PixelSize + 8)]_vars
\* the same for Raw and RRE rectangles alone
RawAndRRECanvasIndependent ==
    [][(last'.tick # last.tick /\ last'.tag \in {EncRaw, EncRRE}) =>
          last'.n = TakenWithoutCanvas]_vars

\* the goroutine p is in a Close call that found the connection closed
LaterCall(p) == At(p, "close") /\ closed
\* the first Close call returns
FirstReturns(p) == At(p, "wait") /\ ~(procs'[p].pc = "wait")

\* C37: Close may be called any number of times and by several goroutines at
\* once: the quit channel and the underlying connection are closed exactly
\* once, and every call after the first returns nil and changes nothing.
C37_CloseOnce ==
    [][/\ quitClosed' <= 1
       /\ connClosed' <= 1
       /\ \A p \in Goroutines \cup Apps :
            /\ FirstReturns(p) => quitClosed = 1 /\ connClosed = 1
            /\ (LaterCall(p) /\ procs'[p] # procs[p]) =>
                  /\ procs'[p].ret = "nil"
                  /\ UNCHANGED <<closed, quitClosed, connClosed, wg, bw, sent>>]_vars
C37_Witness ==
    /\ \A p \in Apps : At(p, "idle") /\ procs[p].calls = MaxCalls /\ procs[p].ret = "nil"
    /\ \A p \in Goroutines : At(p, "exited")
    /\ quitClosed = 1
    /\ connClosed = 1

\* both message goroutines have exited, the wait group is at zero and no Wait
\* call is left waiting
ShutdownComplete ==
    /\ \A g \in Goroutines : At(g, "exited")
    /\ wg = 0
    /\ ~At("waiter", "waiting")
\* the goroutine p is in the Close call that found the connection open
FirstCloser(p) == procs[p].first /\ procs[p].pc \in {"quit", "conn", "wait"}

\* C38: when a message goroutine stops on its own, with no Close before it,
\* shutdown completes: its Close call returns, both goroutines exit, the wait
\* group reaches zero and Wait returns.
C38_ShutdownCompletes ==
    \A g \in Goroutines :
        FirstCloser(g) ~> (ShutdownComplete /\ procs[g].ret = "nil")
\* the same for a Close call of the application on a connection whose message
\* goroutines run
AppShutdownCompletes ==
    \A a \in Apps :
        (FirstCloser(a) /\ ~At("handle", "idle")) ~> (ShutdownComplete /\ procs[a].ret = "nil")

\* the writes of SetEncodings and of the request, in their order
HandshakeWrites == SetEncodingsParts \o <<"FramebufferUpdateRequest">>
\* the sequence s holds the sequence t as one piece
RECURSIVE HoldsWhole(_, _)
HoldsWhole(s, t) ==
    IF Len(s) < Len(t) THEN FALSE
    ELSE SubSeq(s, 1, Len(t)) = t \/ HoldsWhole(Tail(s), t)

\* C39: when the message handler has returned nil, SetEncodings and the first
\* FramebufferUpdateRequest are on the underlying connection, in that order,
\* as one piece, whether or not a client message follows.
C39_HandshakeWrittenThrough ==
    (At("handle", "returned") /\ procs["handle"].ret = "nil") => HoldsWhole(sent, HandshakeWrites)
\* what holds instead: the handler's writes are in the buffer or on the
\* connection, in their order, with the client messages left out
HandshakeBuffered ==
    (At("handle", "returned") /\ procs["handle"].ret = "nil") =>
        SelectSeq(sent \o bw.buf, LAMBDA x : x # "ClientMessage") = HandshakeWrites

\* C40: after a handshake that succeeded the server keeps the connection open:
\* ServerConn.Close is not called before the client has closed the connection
\* or Server.Stop has been called.
C40_KeptOpen ==
    [][\A c \in Conns :
          (conns[c].shook /\ conns'[c].closes > conns[c].closes) =>
              conns[c].peerClosed \/ srvQuit]_vars
\* what holds instead: a connection is closed once, by the return of
\* handleConnection
ClosedOnReturn ==
    [][\A c \in Conns :
          conns'[c].closes > conns[c].closes =>
              conns[c].pc = "close" /\ conns'[c].closes = 1]_vars
====
